---- MODULE Spec2Model ----
(***************************************************************************)
(* A model of gquant/dataframe_flow/_node_flow.py (NodeTaskGraphMixin):    *)
(* the column-schema propagation walk (columns_flow), the execution walk   *)
(* (flow / __call__), the delayed (partitioned) call and the output        *)
(* validator.                                                              *)
(*                                                                         *)
(* Data representation                                                     *)
(*   - A Python string is a sequence of tokens; the character "@" is       *)
(*     always a token of its own, so s.startswith("@") is Head(s) = "@"    *)
(*     and s[1:] is Tail(s).                                               *)
(*   - A Python dict is an insertion-ordered sequence of <<key, value>>    *)
(*     pairs with distinct keys; two dicts are equal when they are equal   *)
(*     as maps (AsMap), whatever their order.                              *)
(***************************************************************************)
EXTENDS Integers, Sequences, FiniteSets, TLC

(***************************************************************************)
(* Strings and dicts                                                       *)
(***************************************************************************)
\* Python's None, distinct from every string of the model.
None == <<"<None>">>

\* str.startswith("@")
StartsWithAt(s) == Len(s) > 0 /\ Head(s) = "@"

\* The one element of a singleton set.  An operator whose argument is used
\* more than once first binds its value, as in The({ body : x \in {arg} }),
\* so that the argument is evaluated once.
The(S) == CHOOSE x \in S : TRUE

\* the keys of a dict
Keys(d) == {d[i][1] : i \in 1..Len(d)}

\* k in d
Has(d, k) == \E p \in {d} : \E i \in 1..Len(p) : p[i][1] = k

\* d[k], for a key of d
Get(d, k) ==
    The({ p[CHOOSE i \in 1..Len(p) : p[i][1] = k][2] : p \in {d} })

\* d.get(k, dflt)
GetOr(d, k, dflt) ==
    The({ IF Has(p, k) THEN Get(p, k) ELSE dflt : p \in {d} })

\* d[k] = v: an existing key keeps its place, a new key goes last
Put(d, k, v) ==
    The({ IF Has(p, kk)
          THEN [i \in 1..Len(p) |-> IF p[i][1] = kk THEN <<kk, vv>> ELSE p[i]]
          ELSE Append(p, <<kk, vv>>) : p \in {d}, kk \in {k}, vv \in {v} })

\* del d[k], for a key of d
Del(d, k) == The({ SelectSeq(p, LAMBDA q : q[1] # kk) : p \in {d}, kk \in {k} })

\* d.update(e)
RECURSIVE Update(_, _)
Update(d, e) ==
    The({ IF q = <<>> THEN p ELSE Update(Put(p, q[1][1], q[1][2]), Tail(q)) :
          p \in {d}, q \in {e} })

\* dict equality is equality of the maps
AsMap(d) == The({ [k \in Keys(p) |-> Get(p, k)] : p \in {d} })

\* {col: type for d in dicts.values() for col, type in d.items()}
RECURSIVE FlattenFrom(_, _)
FlattenFrom(dd, acc) ==
    The({ IF q = <<>> THEN p ELSE FlattenFrom(Tail(q), Update(p, q[1][2])) :
          q \in {dd}, p \in {acc} })

Flatten(dd) == FlattenFrom(dd, <<>>)

(***************************************************************************)
(* __translate_column: a result is [err, d]; err is "" or the error kind.  *)
(* A conf value is [kind |-> "str", v |-> string], [kind |-> "list",       *)
(* v |-> sequence of strings] or of another kind.                          *)
(***************************************************************************)
Ok(d) == [err |-> "", d |-> d]

Fail(e, d) == [err |-> e, d |-> d]

\* a conf value used as a column type: a string is itself, any other
\* object is an opaque tag that equals no string
AsType(val) == IF val.kind = "str" THEN val.v ELSE <<"<obj>", val.kind>>

\* for item in v: output[item] = None
RECURSIVE PutItems(_, _)
PutItems(out, items) ==
    The({ IF q = <<>> THEN p ELSE PutItems(Put(p, q[1], None), Tail(q)) :
          p \in {out}, q \in {items} })

\* one iteration of the loop over columns.items()
TranslateOne(cf, out, col_name, col_type0) ==
    LET tmacro == col_type0 # None /\ StartsWithAt(col_type0)
        terr   == tmacro /\ ~Has(cf, Tail(col_type0))
        col_type == IF tmacro /\ ~terr THEN AsType(Get(cf, Tail(col_type0)))
                    ELSE col_type0
        nmacro == StartsWithAt(col_name)
        nerr   == nmacro /\ ~Has(cf, Tail(col_name))
    IN  IF terr \/ nerr THEN Fail("conf", out)
        ELSE IF nmacro
        THEN LET v == Get(cf, Tail(col_name))
             IN  IF v.kind = "str" THEN Ok(Put(out, v.v, col_type))
                 ELSE IF v.kind = "list" THEN Ok(PutItems(out, v.v))
                 ELSE Ok(out)
        ELSE Ok(Put(out, col_name, col_type))

RECURSIVE TranslateFrom(_, _, _)
TranslateFrom(cf, columns, out) ==
    The({ IF q = <<>> THEN Ok(p)
          ELSE The({ IF r.err # "" THEN r ELSE TranslateFrom(cf, Tail(q), r.d) :
                     r \in {TranslateOne(cf, p, q[1][1], q[1][2])} }) :
          q \in {columns}, p \in {out} })

TranslateColumn(cf, columns) == TranslateFrom(cf, columns, <<>>)

(***************************************************************************)
(* columns_flow: the computation of a node's output_columns.               *)
(* A node's class is [using_ports, iports, oports, ...]; its column setup  *)
(* is c = [required, addition, deletion, has_retention, retention,         *)
(* rename, conf] (has_retention is "retention is not None").               *)
(***************************************************************************)
\* validate_required for every translated required column: a column that
\* is missing raises; a type mismatch is only printed
RequiredErr(icols, required_tran) ==
    IF \E p \in {icols}, q \in {required_tran} :
          \E i \in 1..Len(q) : ~Has(p, q[i][1])
    THEN "required" ELSE ""

\* mutant: an added column does not replace a column of the same name
ApplyAdditionKeepsOld(cf, cols, addition) ==
    The({ IF t.err # "" THEN Fail(t.err, cols) ELSE Ok(Update(t.d, cols)) :
          t \in {TranslateColumn(cf, addition)} })

\* output_cols.update(add_cols)
ApplyAddition(cf, cols, addition) ==
    The({ IF t.err # "" THEN Fail(t.err, cols) ELSE Ok(Update(cols, t.d)) :
          t \in {TranslateColumn(cf, addition)} })

\* for kdel in del_cols: del col_dict[kdel]
RECURSIVE DeleteFrom(_, _)
DeleteFrom(cols, dels) ==
    The({ IF q = <<>> THEN Ok(p)
          ELSE IF ~Has(p, q[1][1]) THEN Fail("deletion", p)
          ELSE DeleteFrom(Del(p, q[1][1]), Tail(q)) :
          p \in {cols}, q \in {dels} })

ApplyDeletion(cf, cols, deletion) ==
    The({ IF t.err # "" THEN Fail(t.err, cols) ELSE DeleteFrom(cols, t.d) :
          t \in {TranslateColumn(cf, deletion)} })

\* output_cols = self.__translate_column(self.retention)
ApplyRetention(cf, cols, retention) == TranslateColumn(cf, retention)

\* mutant: the renamed column is not deleted
RenameOneKeepsOld(cols, col_key, repl_name) ==
    The({ Put(p, repl_name, Get(p, col_key)) : p \in {cols} })

\* types = cols[col_key]; del cols[col_key]; cols[repl_name] = types
RenameOne(cols, col_key, repl_name) ==
    The({ Put(Del(p, col_key), repl_name, Get(p, col_key)) : p \in {cols} })

RECURSIVE RenameFrom(_, _)
RenameFrom(cols, replacement) ==
    The({ IF q = <<>> THEN Ok(p)
          ELSE IF ~Has(p, q[1][1]) THEN Fail("rename", p)
          ELSE RenameFrom(RenameOne(p, q[1][1], q[1][2]), Tail(q)) :
          p \in {cols}, q \in {replacement} })

ApplyRename(cf, cols, rename) ==
    The({ IF t.err # "" THEN Fail(t.err, cols) ELSE RenameFrom(cols, t.d) :
          t \in {TranslateColumn(cf, rename)} })

\* the stages of the node without ports; each takes the result r so far
\* and passes an error on
LegacyRequired(c, incoming) ==
    IF c.required = <<>> THEN Ok(incoming)
    ELSE The({ IF t.err # "" THEN Fail(t.err, <<>>)
               ELSE IF RequiredErr(incoming, t.d) # "" THEN Fail("required", <<>>)
               ELSE Ok(incoming) :
               t \in {TranslateColumn(c.conf, c.required)} })

LegacyAddition(c, r) ==
    The({ IF p.err # "" \/ c.addition = <<>> THEN p
          ELSE ApplyAddition(c.conf, p.d, c.addition) : p \in {r} })

LegacyDeletion(c, r) ==
    The({ IF p.err # "" \/ c.deletion = <<>> THEN p
          ELSE ApplyDeletion(c.conf, p.d, c.deletion) : p \in {r} })

LegacyRetention(c, r) ==
    The({ IF p.err # "" \/ ~c.has_retention THEN p
          ELSE ApplyRetention(c.conf, p.d, c.retention) : p \in {r} })

LegacyRename(c, r) ==
    The({ IF p.err # "" \/ c.rename = <<>> THEN p
          ELSE ApplyRename(c.conf, p.d, c.rename) : p \in {r} })

\* mutant: retention is applied before addition and deletion
LegacyBodyRetainsFirst(c, ic) ==
    LegacyRename(c, LegacyDeletion(c, LegacyAddition(c,
        LegacyRetention(c, LegacyRequired(c, Flatten(ic))))))

\* the node without ports: the flattened inputs are validated and passed
\* through, then addition, deletion, retention and rename apply in this order
LegacyBody(c, ic) ==
    LegacyRename(c, LegacyRetention(c, LegacyDeletion(c,
        LegacyAddition(c, LegacyRequired(c, Flatten(ic))))))

\* for iport in self._get_input_ports(): validate required.get(iport, {})
\* against inputs_cols[iport]
RECURSIVE PortsRequired(_, _, _, _)
PortsRequired(cf, ic, required, iports) ==
    IF iports = <<>> THEN ""
    ELSE The({ IF t.err # "" THEN t.err
               ELSE IF ~Has(ic, iports[1]) THEN "port"
               ELSE IF RequiredErr(Get(ic, iports[1]), t.d) # "" THEN "required"
               ELSE PortsRequired(cf, ic, required, Tail(iports)) :
               t \in {TranslateColumn(cf, GetOr(required, iports[1], <<>>))} })

\* combined[oport] = self.__translate_column(self.required.get(oport, {}))
RECURSIVE PortsSeed(_, _, _, _)
PortsSeed(cf, required, oports, combined) ==
    IF oports = <<>> THEN Ok(combined)
    ELSE The({ IF t.err # "" THEN Fail(t.err, p)
               ELSE PortsSeed(cf, required, Tail(oports), Put(p, oports[1], t.d)) :
               t \in {TranslateColumn(cf, GetOr(required, oports[1], <<>>))},
               p \in {combined} })

RECURSIVE PortsAddition(_, _, _, _)
PortsAddition(cf, output_cols, addition, oports) ==
    IF oports = <<>> THEN Ok(output_cols)
    ELSE The({ The({ IF r.err # "" THEN Fail(r.err, p)
                     ELSE PortsAddition(cf, Put(p, oports[1], r.d), addition,
                                        Tail(oports)) :
                     r \in {ApplyAddition(cf, GetOr(p, oports[1], <<>>),
                                          GetOr(addition, oports[1], <<>>))} }) :
               p \in {output_cols} })

RECURSIVE PortsDeletion(_, _, _, _)
PortsDeletion(cf, output_cols, deletion, oports) ==
    IF oports = <<>> THEN Ok(output_cols)
    ELSE The({ The({ IF r.err # "" THEN Fail(r.err, p)
                     ELSE PortsDeletion(cf, Put(p, oports[1], r.d), deletion,
                                        Tail(oports)) :
                     r \in {ApplyDeletion(cf, GetOr(p, oports[1], <<>>),
                                          GetOr(deletion, oports[1], <<>>))} }) :
               p \in {output_cols} })

RECURSIVE PortsRetention(_, _, _, _)
PortsRetention(cf, output_cols, retention, oports) ==
    IF oports = <<>> THEN Ok(output_cols)
    ELSE The({ The({ IF r.err # "" THEN Fail(r.err, p)
                     ELSE PortsRetention(cf, Put(p, oports[1], r.d), retention,
                                         Tail(oports)) :
                     r \in {ApplyRetention(cf, GetOr(p, oports[1], <<>>),
                                           GetOr(retention, oports[1], <<>>))} }) :
               p \in {output_cols} })

RECURSIVE PortsRename(_, _, _, _)
PortsRename(cf, output_cols, rename, oports) ==
    IF oports = <<>> THEN Ok(output_cols)
    ELSE The({ The({ IF r.err # "" THEN Fail(r.err, p)
                     ELSE PortsRename(cf, Put(p, oports[1], r.d), rename,
                                      Tail(oports)) :
                     r \in {ApplyRename(cf, GetOr(p, oports[1], <<>>),
                                        GetOr(rename, oports[1], <<>>))} }) :
               p \in {output_cols} })

\* the stages of the node with ports
PortedRequired(nd, c, ic) ==
    IF c.required = <<>> THEN PortsSeed(c.conf, c.required, nd.oports, <<>>)
    ELSE The({ IF e # "" THEN Fail(e, <<>>)
               ELSE PortsSeed(c.conf, c.required, nd.oports, <<>>) :
               e \in {PortsRequired(c.conf, ic, c.required, nd.iports)} })

PortedAddition(nd, c, r) ==
    The({ IF p.err # "" \/ c.addition = <<>> THEN p
          ELSE PortsAddition(c.conf, p.d, c.addition, nd.oports) : p \in {r} })

PortedDeletion(nd, c, r) ==
    The({ IF p.err # "" \/ c.deletion = <<>> THEN p
          ELSE PortsDeletion(c.conf, p.d, c.deletion, nd.oports) : p \in {r} })

PortedRetention(nd, c, r) ==
    The({ IF p.err # "" \/ ~c.has_retention THEN p
          ELSE PortsRetention(c.conf, p.d, c.retention, nd.oports) : p \in {r} })

PortedRename(nd, c, r) ==
    The({ IF p.err # "" \/ c.rename = <<>> THEN p
          ELSE PortsRename(c.conf, p.d, c.rename, nd.oports) : p \in {r} })

\* the node with ports: the inputs are validated port by port, every
\* output port is seeded with required.get(oport), then addition,
\* deletion, retention and rename apply port by port in this order
PortedBody(nd, c, ic) ==
    PortedRename(nd, c, PortedRetention(nd, c, PortedDeletion(nd, c,
        PortedAddition(nd, c, PortedRequired(nd, c, ic)))))

\* the output columns columns_flow computes for a ready node (d), or the
\* error it raises (err), d then being the local output_cols as the raise
\* found it
ColumnsFlowBody(nd, c, ic) ==
    IF nd.using_ports THEN PortedBody(nd, c, ic) ELSE LegacyBody(c, ic)

\* the columns pushed along an outgoing edge (out_cols); err "port" is the
\* KeyError of self.output_columns[oport]
EdgeOutCols(nd, oc, from_port) ==
    IF from_port # None
    THEN IF Has(oc, from_port) THEN Ok(Get(oc, from_port)) ELSE Fail("port", <<>>)
    ELSE IF nd.using_ports THEN Ok(Flatten(oc)) ELSE Ok(oc)

(***************************************************************************)
(* The task graphs and column setups the model draws from                  *)
(***************************************************************************)
\* column names, type tags, conf fields, port names
Cx == <<"x">>
Cy == <<"y">>
Cz == <<"z">>
Ca == <<"a">>
Cb == <<"b">>
Int64 == <<"int64">>
Float64 == <<"float64">>
AtF == <<"@", "f">>
AtG == <<"@", "g">>
AtT == <<"@", "t">>
In1 == <<"in1">>
In2 == <<"in2">>
Out1 == <<"out1">>
Out2 == <<"out2">>
Pos0 == <<"0">>
Pos1 == <<"1">>

\* self.conf of every node: f names column x, g names the columns a and b,
\* t names the type float64
NodeConf ==
    << <<<<"f">>, [kind |-> "str", v |-> Cx]>>,
       <<<<"g">>, [kind |-> "list", v |-> <<Ca, Cb>>]>>,
       <<<<"t">>, [kind |-> "str", v |-> Float64]>> >>

\* a column setup; retention None is has_retention = FALSE
Setup(required, addition, deletion, has_retention, retention, rename) ==
    [required |-> required, addition |-> addition, deletion |-> deletion,
     has_retention |-> has_retention, retention |-> retention,
     rename |-> rename, conf |-> NodeConf]

\* Node.__init__ defaults: no column operation at all
NoSetup == Setup(<<>>, <<>>, <<>>, FALSE, <<>>, <<>>)

\* setups of the nodes without inputs (data sources): additions only
RootSetups ==
    { Setup(<<>>, << <<Cx, Int64>> >>, <<>>, FALSE, <<>>, <<>>),
      Setup(<<>>, << <<Cx, Float64>>, <<Cy, Int64>> >>, <<>>, FALSE, <<>>, <<>>),
      Setup(<<>>, << <<Ca, Int64>> >>, <<>>, FALSE, <<>>, <<>>),
      Setup(<<>>, << <<Ca, Int64>>, <<Cb, Float64>>, <<Cx, Int64>> >>, <<>>,
            FALSE, <<>>, <<>>) }

\* setups of the nodes without ports (flat dicts)
LegacySetups ==
    { NoSetup,
      Setup(<< <<Cx, Int64>> >>, << <<Cy, Int64>> >>, <<>>, FALSE, <<>>, <<>>),
      Setup(<< <<Cx, Int64>> >>, << <<Cx, Float64>> >>, <<>>, FALSE, <<>>, <<>>),
      Setup(<<>>, << <<Cz, Int64>> >>, <<>>, TRUE, << <<Cy, Int64>> >>, <<>>),
      Setup(<<>>, <<>>, << <<Cx, None>> >>, FALSE, <<>>, <<>>),
      Setup(<<>>, <<>>, <<>>, FALSE, <<>>, << <<Ca, Cb>> >>),
      Setup(<<>>, <<>>, <<>>, FALSE, <<>>, << <<Cb, Ca>> >>),
      Setup(<< <<AtF, Int64>> >>, << <<AtG, Int64>>, <<Cz, AtT>> >>, <<>>,
            FALSE, <<>>, <<>>) }

\* setups of the nodes with ports (dicts keyed by port name)
PortedSetups ==
    { NoSetup,
      Setup(<< <<In1, << <<Cx, Int64>> >> >> >>,
            << <<Out1, << <<Cy, Int64>> >> >> >>, <<>>, FALSE, <<>>, <<>>),
      Setup(<< <<Out1, << <<Cx, Int64>> >> >> >>,
            << <<Out1, << <<Cy, Int64>> >> >> >>, <<>>, FALSE, <<>>, <<>>),
      Setup(<<>>, << <<Out1, << <<Cz, Int64>> >> >>, <<Out2, << <<Cx, Int64>> >> >> >>,
            <<>>, TRUE, << <<Out1, << <<Cy, Int64>> >> >> >>, <<>>),
      Setup(<< <<Out1, << <<Ca, Int64>> >> >> >>,
            << <<Out1, << <<Cx, Int64>> >> >> >>,
            << <<Out1, << <<Cx, None>> >> >> >>, FALSE, <<>>,
            << <<Out1, << <<Ca, Cb>> >> >> >>) }

\* setups of a source node with ports: additions per output port, and a
\* retention that has an entry for the first port only
PortedRootSetups ==
    { Setup(<<>>, << <<Out1, << <<Cx, Int64>> >> >>,
                     <<Out2, << <<Cx, Float64>>, <<Cy, Int64>> >> >> >>,
            <<>>, FALSE, <<>>, <<>>),
      Setup(<<>>, << <<Out1, << <<Cx, Int64>>, <<Cy, Int64>> >> >>,
                     <<Out2, << <<Cx, Int64>> >> >> >>,
            <<>>, TRUE, << <<Out1, << <<Cx, Int64>> >> >> >>, <<>>),
      Setup(<<>>, << <<Out1, << <<Ca, Int64>> >> >> >>, <<>>, FALSE, <<>>, <<>>) }

OUTPUT_ID == "f291b900-bd19-11e9-aca3-a81e84f29b0f_uni_output"

\* one entry of _get_output_ports(full_port_spec=True): the port's
\* PortsSpecSchema.optional and the types of PortsSpecSchema.port_type
PortSpec(optional, types) == [optional |-> optional, types |-> types]

\* node classes: uid (OUTPUT_ID for the node that collects the graph's
\* outputs), _using_ports(), _get_input_ports(), _get_output_ports() and
\* _get_output_ports(full_port_spec=True)
NodeClass(uid, using_ports, iports, oports, ospec) ==
    [uid |-> uid, using_ports |-> using_ports, iports |-> iports,
     oports |-> oports, ospec |-> ospec]

Frames == {"cudf", "dask_cudf"}

Legacy == NodeClass("task", FALSE, <<>>, <<>>, <<>>)
Ported02 ==
    NodeClass("task", TRUE, <<>>, <<Out1, Out2>>,
              << <<Out1, PortSpec(FALSE, Frames)>>, <<Out2, PortSpec(FALSE, Frames)>> >>)
Ported02Optional ==
    NodeClass("task", TRUE, <<>>, <<Out1, Out2>>,
              << <<Out1, PortSpec(FALSE, {"cudf"})>>, <<Out2, PortSpec(TRUE, {})>> >>)
Ported11 ==
    NodeClass("task", TRUE, <<In1>>, <<Out1>>, << <<Out1, PortSpec(FALSE, Frames)>> >>)
Ported21 ==
    NodeClass("task", TRUE, <<In1, In2>>, <<Out1>>,
              << <<Out1, PortSpec(TRUE, {"cudf"})>> >>)
Collector == NodeClass(OUTPUT_ID, TRUE, <<In1>>, <<>>, <<>>)

Edge(from_node, from_port, to_node, to_port) ==
    [from_node |-> from_node, from_port |-> from_port,
     to_node |-> to_node, to_port |-> to_port]

\* the graph shapes: node classes and the edge list in task-spec order
Shapes ==
    { \* a chain of nodes without ports
      [cls |-> <<Legacy, Legacy, Legacy>>,
       edges |-> <<Edge(1, None, 2, Pos0), Edge(2, None, 3, Pos0)>>],
      \* two sources joined by a node without ports
      [cls |-> <<Legacy, Legacy, Legacy>>,
       edges |-> <<Edge(1, None, 3, Pos0), Edge(2, None, 3, Pos1)>>],
      \* a source with two output ports feeding both input ports of a node,
      \* whose outputs are flattened into a node without ports
      [cls |-> <<Ported02, Ported21, Legacy>>,
       edges |-> <<Edge(1, Out1, 2, In1), Edge(1, Out2, 2, In2),
                   Edge(2, None, 3, Pos0)>>],
      \* a diamond of a source, a node with ports and a join
      [cls |-> <<Legacy, Ported11, Legacy>>,
       edges |-> <<Edge(1, None, 2, In1), Edge(1, None, 3, Pos0),
                   Edge(2, Out1, 3, Pos1)>>] }

NodesOf(shape) == 1..Len(shape.cls)

\* self.inputs of node n, in task-spec order
InputsOf(shape, n) == SelectSeq(shape.edges, LAMBDA e : e.to_node = n)

\* the permutations of a sequence
Perms(sq) ==
    { p \in [1..Len(sq) -> 1..Len(sq)] :
        \A i, j \in 1..Len(sq) : i # j => p[i] # p[j] }

Permuted(sq, p) == [i \in 1..Len(sq) |-> sq[p[i]]]

Orders(sq) == { Permuted(sq, p) : p \in Perms(sq) }

\* the nodes without inputs, in increasing order
RECURSIVE RootsFrom(_, _)
RootsFrom(shape, n) ==
    IF n > Len(shape.cls) THEN <<>>
    ELSE IF InputsOf(shape, n) = <<>> THEN <<n>> \o RootsFrom(shape, n + 1)
    ELSE RootsFrom(shape, n + 1)

\* the setups a node may have, by its class and place
SetupsOf(shape, n) ==
    IF InputsOf(shape, n) = <<>>
    THEN IF shape.cls[n].using_ports THEN PortedRootSetups ELSE RootSetups
    ELSE IF shape.cls[n].using_ports THEN PortedSetups ELSE LegacySetups

(***************************************************************************)
(* Python values that flow along the edges.  kind is "None", "cudf"        *)
(* (cudf.DataFrame), "dask_cudf" (dask_cudf.DataFrame), "other" (any other *)
(* object), "dict" (items: port -> value) or "list" (items: values).  A    *)
(* dataframe has columns cols (name -> dtype string), rows rows and, when  *)
(* distributed, nparts partitions; id tells where the value was made.      *)
(***************************************************************************)
\* where a value was made: by which node, for which port, in which call of
\* the node (call 0: outside the walk)
DataId(n, port, call) == [node |-> n, port |-> port, call |-> call]

NoId == DataId(0, None, 0)

PyVal(id, kind, cols, rows, nparts, items) ==
    [id |-> id, kind |-> kind, cols |-> cols, rows |-> rows, nparts |-> nparts,
     items |-> items]

PyNone == PyVal(NoId, "None", <<>>, 0, 0, <<>>)

PyDict(items) == PyVal(NoId, "dict", <<>>, 0, 0, items)

PyList(items) == PyVal(NoId, "list", <<>>, 0, 0, items)

\* isinstance(v, cudf.DataFrame) or isinstance(v, dask_cudf.DataFrame)
IsFrame(v) == v.kind \in {"cudf", "dask_cudf"}

(***************************************************************************)
(* _validate_df                                                            *)
(***************************************************************************)
Date == <<"date">>
Category == <<"category">>
DatetimeMs == <<"datetime64[ms]">>
DatetimeNs == <<"datetime64[ns]">>
FloatType == <<"float">>
IntType == <<"int">>
Object == <<"object">>
Foo == <<"foo">>

\* str(np.dtype(t)): numpy's canonical name of a type string; a string
\* numpy does not understand raises TypeError
NpDtypeStr(t) ==
    IF t \in {Int64, IntType} THEN Ok(Int64)
    ELSE IF t \in {Float64, FloatType} THEN Ok(Float64)
    ELSE IF t \in {DatetimeMs, DatetimeNs, Object} THEN Ok(t)
    ELSE Fail("type_error", t)

\* mutant: a date column matches datetime64[ms] and date only
DateDTypesWithoutNs == {DatetimeMs, Date}

\* d_type_tuple of the declared type 'date'
DateDTypes == {DatetimeMs, Date, DatetimeNs}

\* d_type_tuple for a declared type that is not None; err when np.dtype
\* raises
DTypeTuple(ref_type) ==
    IF ref_type = Category THEN Ok({Category})
    ELSE IF ref_type = Date THEN Ok(DateDTypes)
    ELSE The({ IF t.err # "" THEN Fail(t.err, {}) ELSE Ok({t.d}) :
               t \in {NpDtypeStr(ref_type)} })

\* the loop over ref_cols.keys(): [err, ok]; ok FALSE is "return False"
RECURSIVE ValidateColumns(_, _)
ValidateColumns(i_cols, ref_cols) ==
    IF ref_cols = <<>> THEN [err |-> "", ok |-> TRUE]
    ELSE IF ~Has(i_cols, ref_cols[1][1]) THEN [err |-> "", ok |-> FALSE]
    ELSE IF ref_cols[1][2] = None THEN ValidateColumns(i_cols, Tail(ref_cols))
    ELSE The({ IF tt.err # "" THEN [err |-> tt.err, ok |-> FALSE]
               ELSE IF Get(i_cols, ref_cols[1][1]) \notin tt.d
               THEN [err |-> "", ok |-> FALSE]
               ELSE ValidateColumns(i_cols, Tail(ref_cols)) :
               tt \in {DTypeTuple(ref_cols[1][2])} })

\* _validate_df(df_to_val, ref_cols): [err, ok]; err is the exception
\* raised ("empty", "columns", "type_error"), ok the value returned
ValidateDf(df_to_val, ref_cols) ==
    IF IsFrame(df_to_val) /\ df_to_val.rows = 0 THEN [err |-> "empty", ok |-> FALSE]
    ELSE IF ~IsFrame(df_to_val) THEN [err |-> "", ok |-> TRUE]
    ELSE IF Len(df_to_val.cols) # Len(ref_cols) THEN [err |-> "columns", ok |-> FALSE]
    ELSE ValidateColumns(df_to_val.cols, ref_cols)

(***************************************************************************)
(* __valide                                                                *)
(***************************************************************************)
VOk == [err |-> "", port |-> None]

VErr(e, pname) == [err |-> e, port |-> pname]

\* mutant: the declared types are not extended
ExpectedTypesAsDeclared(types, delayed_process) == types

\* expected_type after "if self.delayed_process and cudf.DataFrame in
\* expected_type and dask_cudf.DataFrame not in expected_type: extend"
ExpectedTypes(types, delayed_process) ==
    IF delayed_process /\ "cudf" \in types /\ "dask_cudf" \notin types
    THEN types \cup {"dask_cudf"}
    ELSE types

\* val_flag = self._validate_df(...) and "if not val_flag: raise"
ValidFrame(out_val, cols_to_val, pname) ==
    The({ IF v.err # "" THEN VErr(v.err, pname)
          ELSE IF ~v.ok THEN VErr("not_valid", pname)
          ELSE VOk : v \in {ValidateDf(out_val, cols_to_val)} })

\* mutant: an absent output port is skipped whether optional or not
AbsentPortSkipped(optional, pname) == VOk

\* "if pname not in node_output": continue when optional, else raise
AbsentPort(optional, pname) ==
    IF optional THEN VOk ELSE VErr("no_output", pname)

\* mutant: an empty dataframe is skipped whether the port is optional or not
EmptySkippedAlways(out_val, optional) == out_val.rows = 0

\* "if len(out_val) == 0 and out_optional: continue"
EmptySkipped(out_val, optional) == out_val.rows = 0 /\ optional

\* one iteration of "for pname, pspec in out_ports.items()": err "" is the
\* iteration running to its end or to a continue
ValidePort(pname, pspec, delayed_process, node_output, ref_cols) ==
    IF ~Has(node_output.items, pname)
    THEN AbsentPort(pspec.optional, pname)
    ELSE The({ IF expected_type # {} /\ out_val.kind \notin expected_type
               THEN VErr("wrong_type", pname)
               ELSE IF ~IsFrame(out_val) THEN VOk
               ELSE IF EmptySkipped(out_val, pspec.optional) THEN VOk
               ELSE IF out_val.rows = 0 THEN VErr("empty", pname)
               \* ref_cols.get(pname) is None: len(None) raises TypeError
               ELSE IF ~Has(ref_cols, pname) THEN VErr("type_error", pname)
               ELSE ValidFrame(out_val, Get(ref_cols, pname), pname) :
               out_val \in {Get(node_output.items, pname)},
               expected_type \in {ExpectedTypes(pspec.types, delayed_process)} })

RECURSIVE ValidePorts(_, _, _, _)
ValidePorts(out_ports, delayed_process, node_output, ref_cols) ==
    IF out_ports = <<>> THEN VOk
    ELSE The({ IF v.err # "" THEN v
               ELSE ValidePorts(Tail(out_ports), delayed_process, node_output, ref_cols) :
               v \in {ValidePort(out_ports[1][1], out_ports[1][2], delayed_process,
                                 node_output, ref_cols)} })

\* __valide(node_output, ref_cols) of a node of class nd: err is the
\* exception raised, port the output port it is about
Valide(nd, delayed_process, node_output, ref_cols) ==
    IF nd.using_ports
    THEN ValidePorts(nd.ospec, delayed_process, node_output, ref_cols)
    ELSE ValidFrame(node_output, ref_cols, None)

(***************************************************************************)
(* __input_ready, __call__ and the routing of flow                         *)
(***************************************************************************)
\* self.load: a bool, or any other value given in the task
LoadBool(flag) == [isbool |-> TRUE, flag |-> flag, val |-> PyNone]

LoadValue(val) == [isbool |-> FALSE, flag |-> FALSE, val |-> val]

\* bool(v) of a value that is None, a dict, a list or an object that
\* defines neither __bool__ nor __len__
Truthy(v) ==
    IF v.kind = "None" THEN FALSE
    ELSE IF v.kind \in {"dict", "list"} THEN v.items # <<>>
    ELSE TRUE

\* "if self.load:"
LoadTruthy(load) == IF load.isbool THEN load.flag ELSE Truthy(load.val)

TaskOf(load, save, clear_input, delayed_process) ==
    [load |-> load, save |-> save, clear_input |-> clear_input,
     delayed_process |-> delayed_process]

\* mutant: a node that has inputs and does not load is never ready
InputReadyLoadOnly(load, ins, idf) == ~load.isbool \/ load.flag \/ ins = <<>>

\* __input_ready of a node whose self.load is load, self.inputs ins and
\* self.input_df idf
InputReady(load, ins, idf) ==
    IF ~load.isbool \/ load.flag THEN TRUE
    ELSE \A i \in 1..Len(ins) : Has(idf, ins[i].to_port)

\* "if self.load:" and "if isinstance(self.load, bool):": load_cache is called
CacheLoaded(load) == LoadTruthy(load) /\ load.isbool

\* mutant: the output is saved before it is checked
SaveCacheUnchecked(save, err) == save

\* save_cache is called: "if self.save:" is reached only when neither the
\* None check nor __valide has raised
SaveCache(save, err) == save /\ err = ""

\* mutant: the caller's loop goes on after the exception
UnwindToCaller(stk) == stk

\* the callers left after an exception: neither flow nor __call__ catches,
\* so it leaves every active flow call
Unwind(stk) == <<>>

CallResult(err, port, out, processed) ==
    [err |-> err, port |-> port, out |-> out, processed |-> processed]

\* __call__ up to the checks of output_df, for a node without
\* delayed_process: the output comes from the cache, from self.load or from
\* process, whose result is proc_out; a node without ports indexes
\* inputs_data by each of its to_ports before it calls process
NodeOutput(nd, tk, ins, inputs_data, cached, proc_out) ==
    IF LoadTruthy(tk.load)
    THEN CallResult("", None, IF tk.load.isbool THEN cached ELSE tk.load.val, FALSE)
    ELSE IF ~nd.using_ports /\ \E i \in 1..Len(ins) : ~Has(inputs_data, ins[i].to_port)
    THEN CallResult("key_error", None, PyNone, FALSE)
    ELSE CallResult("", None, proc_out, TRUE)

\* mutant: only what process returns is checked
NodeCallTrustsLoad(nd, tk, ins, inputs_data, ref_cols, cached, proc_out) ==
    The({ IF o.err # "" \/ ~o.processed THEN o
          ELSE IF nd.uid # OUTPUT_ID /\ o.out.kind = "None"
          THEN CallResult("none_output", None, o.out, o.processed)
          ELSE The({ CallResult(v.err, v.port, o.out, o.processed) :
                     v \in {Valide(nd, tk.delayed_process, o.out, ref_cols)} }) :
          o \in {NodeOutput(nd, tk, ins, inputs_data, cached, proc_out)} })

\* __call__ but for save_cache: [err, port, out, processed]
NodeCall(nd, tk, ins, inputs_data, ref_cols, cached, proc_out) ==
    The({ IF o.err # "" THEN o
          ELSE IF nd.uid # OUTPUT_ID /\ o.out.kind = "None"
          THEN CallResult("none_output", None, o.out, o.processed)
          ELSE The({ CallResult(v.err, v.port, o.out, o.processed) :
                     v \in {Valide(nd, tk.delayed_process, o.out, ref_cols)} }) :
          o \in {NodeOutput(nd, tk, ins, inputs_data, cached, proc_out)} })

\* the values of a dict, in its order
Values(d) == [i \in 1..Len(d) |-> d[i][2]]

\* output_unpack: the only output, or the list of the outputs
Unpack(output_df) ==
    IF Len(output_df.items) = 1 THEN output_df.items[1][2]
    ELSE PyList(Values(output_df.items))

\* mutant: the edge carries the first output whatever its from_port
EdgeDataFirstPort(self_has_ports, onode_has_ports, output_df, oport) ==
    IF self_has_ports /\ output_df.items # <<>> THEN output_df.items[1][2]
    ELSE output_df

\* df of one iteration of "for out in self.outputs" when oport is None or
\* is in output_df
EdgeData(self_has_ports, onode_has_ports, output_df, oport) ==
    IF oport # None THEN Get(output_df.items, oport)
    ELSE IF self_has_ports /\ ~onode_has_ports THEN Unpack(output_df)
    ELSE output_df

\* onode_msg
OnodeMsg(onode_uid) ==
    IF onode_uid = OUTPUT_ID THEN "is listed in task-graph outputs"
    ELSE "is required as input to node"

(***************************************************************************)
(* __check_dly_processing_prereq and __delayed_call                        *)
(***************************************************************************)
\* mutant: one dask_cudf input is enough for the delayed path
CheckDlyProcessingPrereqAnyInput(nd, inputs) ==
    /\ \E i \in 1..Len(inputs) : inputs[i][2].kind = "dask_cudf"
    /\ \A i \in 1..Len(nd.ospec) : nd.ospec[i][2].types \cap Frames # {}

\* __check_dly_processing_prereq: some input is a dask_cudf dataframe, every
\* input is one, and every output port's type has cudf or dask_cudf
CheckDlyProcessingPrereq(nd, inputs) ==
    /\ \E i \in 1..Len(inputs) : inputs[i][2].kind = "dask_cudf"
    /\ \A i \in 1..Len(inputs) : inputs[i][2].kind = "dask_cudf"
    /\ \A i \in 1..Len(nd.ospec) : nd.ospec[i][2].types \cap Frames # {}

\* dcudf.to_delayed(): the partitions, each a cudf dataframe when computed
ToDelayed(dcudf) ==
    [idly \in 1..dcudf.nparts |->
        PyVal(DataId(dcudf.id.node, dcudf.id.port, idly), "cudf", dcudf.cols, 1, 0, <<>>)]

\* mutant: npartitions follows the input at hand
NPartitionsOfThisInput(npartitions, npartitions_) == npartitions_

\* "if npartitions is None: npartitions = npartitions_"; 0 stands for None,
\* which no count of partitions of a dataframe is
NPartitions(npartitions, npartitions_) ==
    IF npartitions = 0 THEN npartitions_ ELSE npartitions

\* mutant: every bundle gets the first partition of the input
SplitIntoFirstPartition(inputs_dly, iport, ddf_dly_list) ==
    The({ [idly \in 1..(IF Len(d) > Len(l) THEN Len(d) ELSE Len(l)) |->
              IF idly > Len(l) THEN d[idly]
              ELSE IF idly > Len(d) THEN << <<iport, l[1]>> >>
              ELSE Put(d[idly], iport, l[1])] :
          d \in {inputs_dly}, l \in {ddf_dly_list} })

\* "for idly, dly in enumerate(ddf_dly_list):
\*      inputs_dly.setdefault(idly, {}).update({iport: dly})"
SplitInto(inputs_dly, iport, ddf_dly_list) ==
    The({ [idly \in 1..(IF Len(d) > Len(l) THEN Len(d) ELSE Len(l)) |->
              IF idly > Len(l) THEN d[idly]
              ELSE IF idly > Len(d) THEN << <<iport, l[idly]>> >>
              ELSE Put(d[idly], iport, l[idly])] :
          d \in {inputs_dly}, l \in {ddf_dly_list} })

\* cudf.DataFrame()
EmptyFrame == PyVal(NoId, "cudf", <<>>, 0, 0, <<>>)

\* get_pout(out_dict, port)
GetPout(out_dict, port) == GetOr(out_dict.items, port, EmptyFrame)

\* "outputs_dly.setdefault(oport, []).append(...)" for each output port
RECURSIVE AppendPouts(_, _, _)
AppendPouts(outputs_dly, oports, out_dict) ==
    IF oports = <<>> THEN outputs_dly
    ELSE The({ AppendPouts(Put(o, oports[1],
                               Append(GetOr(o, oports[1], <<>>),
                                      GetPout(out_dict, oports[1]))),
                           Tail(oports), out_dict) : o \in {outputs_dly} })

RECURSIVE SumRows(_)
SumRows(parts) == IF parts = <<>> THEN 0 ELSE parts[1].rows + SumRows(Tail(parts))

\* dask_cudf.from_delayed(parts): a dask_cudf dataframe of these partitions
\* (kept in items, in their order), with the columns of the first
FromDelayed(id, parts) ==
    PyVal(id, "dask_cudf", parts[1].cols, SumRows(parts), Len(parts), parts)

(***************************************************************************)
(* State                                                                   *)
(***************************************************************************)
VARIABLES
    graph,            \* the task graph: cls, inputs, outputs, roots
    setup,            \* each node's column setup
    input_columns,    \* each node's self.input_columns
    output_columns,   \* each node's self.output_columns
    cstack,           \* the active columns_flow calls: [node, idx]
    croot,            \* the next root the propagation is started from
    crun,             \* the number of the propagation run
    cerr,             \* the error that ended this run: [kind, node], kind "" for none
    first_out,        \* output_columns as the first run left them
    task,             \* each node's load, save, clear_input, delayed_process
    cache,            \* what each node's load_cache reads and save_cache writes
    input_df,         \* each node's self.input_df
    fstack,           \* the active flow calls: [node, idx, output_df]
    froot,            \* the next root the execution is started from
    ferr,             \* the error that ended the execution
    ncall,            \* how many times __call__ was entered on each node
    nproc,            \* how many times process was called on each node
    last_in,          \* the inputs_data of each node's latest process call
    last_df,          \* the output_df each node's latest __call__ came to
    returned,         \* what each node's __call__ returned, call after call
    nload,            \* how many times load_cache was called on each node
    nsave,            \* how many times save_cache was called on each node
    dly,              \* a __call__ of a node with delayed_process, step by step
    vdf,              \* the dataframe given to _validate_df
    vref,             \* the ref_cols given to _validate_df
    vres              \* what _validate_df did: [done, err, ok]

colVars == <<setup, input_columns, cstack, croot, crun, cerr, first_out>>

flowVars == <<task, cache, input_df, fstack, froot, ferr, ncall, nproc, last_in,
              last_df, returned, nload, nsave>>

valVars == <<vdf, vref, vres>>

vars == <<graph, output_columns, colVars, flowVars, dly, valVars>>

\* how many times the propagation is run over the same node objects
MaxRuns == 2

Nodes == NodesOf(graph)

NoErr == [kind |-> "", node |-> 0]

\* the graphs built from a shape: every order of a node's outgoing edges
\* (self.outputs) and of the roots
GraphsOf(shape) ==
    LET outs(n) == SelectSeq(shape.edges, LAMBDA e : e.from_node = n)
        allOrders == UNION { Orders(outs(n)) : n \in NodesOf(shape) }
    IN  { [cls |-> shape.cls,
           inputs |-> [n \in NodesOf(shape) |-> InputsOf(shape, n)],
           outputs |-> o,
           roots |-> r] :
          o \in { f \in [NodesOf(shape) -> allOrders] :
                    \A n \in NodesOf(shape) : f[n] \in Orders(outs(n)) },
          r \in Orders(RootsFrom(shape, 1)) }

\* every assignment of a setup to each of the nodes 1..n
RECURSIVE SetupsUpTo(_, _)
SetupsUpTo(shape, n) ==
    IF n = 0 THEN { <<>> }
    ELSE { Append(f, c) : f \in SetupsUpTo(shape, n - 1), c \in SetupsOf(shape, n) }

SetupsFor(shape) == SetupsUpTo(shape, Len(shape.cls))

(***************************************************************************)
(* Graphs, tasks and datasets of the execution walk                        *)
(***************************************************************************)
FlowShapes ==
    { \* two sources joined by a node without ports
      [cls |-> <<Legacy, Legacy, Legacy>>,
       edges |-> <<Edge(1, None, 3, Pos0), Edge(2, None, 3, Pos1)>>],
      \* two sources joined by a node with two input ports
      [cls |-> <<Legacy, Legacy, Ported21>>,
       edges |-> <<Edge(1, None, 3, In1), Edge(2, None, 3, In2)>>],
      \* a source with two required output ports feeding both input ports of
      \* a node, whose output is unpacked into a node without ports
      [cls |-> <<Ported02, Ported21, Legacy>>,
       edges |-> <<Edge(1, Out1, 2, In1), Edge(1, Out2, 2, In2),
                   Edge(2, None, 3, Pos0)>>],
      \* a source whose required second output is a graph output
      [cls |-> <<Ported02, Legacy, Collector>>,
       edges |-> <<Edge(1, Out1, 2, Pos0), Edge(1, Out2, 3, In1)>>],
      \* a source whose optional second output is a node's input and a graph
      \* output
      [cls |-> <<Ported02Optional, Legacy, Collector>>,
       edges |-> <<Edge(1, Out2, 2, Pos0), Edge(1, Out2, 3, In1)>>],
      \* a source feeding both input ports of a node and, with that node, a
      \* join
      [cls |-> <<Legacy, Ported21, Legacy>>,
       edges |-> <<Edge(1, None, 2, In1), Edge(1, None, 2, In2),
                   Edge(1, None, 3, Pos0), Edge(2, Out1, 3, Pos1)>>] }

\* the schema every output has in the execution walk
XCols == << <<Cx, Int64>> >>

XYCols == << <<Cx, Int64>>, <<Cy, Int64>> >>

\* self.output_columns as a propagation leaves it: XCols for a node without
\* ports, XCols under each output port otherwise
FlowColumns(nd) ==
    IF nd.using_ports THEN [i \in 1..Len(nd.oports) |-> <<nd.oports[i], XCols>>]
    ELSE XCols

\* a cudf dataframe of one row that has the columns cols
Frame(id, cols) == PyVal(id, "cudf", cols, 1, 0, <<>>)

\* a mapping that has a valid dataframe for each of the ports
PortFrames(n, ports, call) ==
    PyDict([i \in 1..Len(ports) |-> <<ports[i], Frame(DataId(n, ports[i], call), XCols)>>])

\* what process, or the cache, of node n may give in call number call: for
\* a node without ports a valid dataframe, a dataframe of another schema,
\* an object that is no dataframe, or None; for a node with ports a mapping
\* that has every output port or only one of them, or None
Outputs(nd, n, call) ==
    IF nd.using_ports
    THEN {PyNone, PortFrames(n, nd.oports, call)}
         \cup { PortFrames(n, <<nd.oports[i]>>, call) : i \in 1..Len(nd.oports) }
    ELSE {PyNone, Frame(DataId(n, None, call), XCols),
          Frame(DataId(n, None, call), XYCols),
          PyVal(DataId(n, None, call), "other", <<>>, 0, 0, <<>>)}

\* the values a task may give as load: None, an empty mapping, and a value
\* the node could have produced
StaticLoads(nd, n) ==
    {PyNone, PyDict(<<>>),
     IF nd.using_ports THEN PortFrames(n, nd.oports, 0)
     ELSE PyVal(DataId(n, None, 0), "other", <<>>, 0, 0, <<>>)}

TaskAndCache(tk, cached) == [task |-> tk, cache |-> cached]

\* the tasks a node may have, each with the content of its cache
TasksOf(nd, n) ==
    { TaskAndCache(TaskOf(LoadBool(FALSE), save, clear_input, FALSE), PyNone) :
        save \in BOOLEAN, clear_input \in BOOLEAN }
    \cup { TaskAndCache(TaskOf(LoadBool(TRUE), FALSE, TRUE, FALSE), cached) :
             cached \in Outputs(nd, n, 0) }
    \cup { TaskAndCache(TaskOf(LoadValue(val), FALSE, TRUE, FALSE), PyNone) :
             val \in StaticLoads(nd, n) }

\* every assignment of a task to each of the nodes 1..n
RECURSIVE TasksUpTo(_, _)
TasksUpTo(shape, n) ==
    IF n = 0 THEN { <<>> }
    ELSE { Append(f, t) : f \in TasksUpTo(shape, n - 1), t \in TasksOf(shape.cls[n], n) }

TasksFor(shape) == TasksUpTo(shape, Len(shape.cls))

FlowErr(kind, n, port, target, msg) ==
    [kind |-> kind, node |-> n, port |-> port, target |-> target, msg |-> msg]

NoFlowErr == FlowErr("", 0, None, 0, "")

\* the variables of the execution walk before any walk
FlowStart(shape, tasks) ==
    /\ task = [n \in NodesOf(shape) |-> tasks[n].task]
    /\ cache = [n \in NodesOf(shape) |-> tasks[n].cache]
    /\ input_df = [n \in NodesOf(shape) |-> <<>>]
    /\ fstack = <<>>
    /\ froot = 1
    /\ ferr = NoFlowErr
    /\ ncall = [n \in NodesOf(shape) |-> 0]
    /\ nproc = [n \in NodesOf(shape) |-> 0]
    /\ last_in = [n \in NodesOf(shape) |-> <<>>]
    /\ last_df = [n \in NodesOf(shape) |-> PyNone]
    /\ returned = [n \in NodesOf(shape) |-> <<>>]
    /\ nload = [n \in NodesOf(shape) |-> 0]
    /\ nsave = [n \in NodesOf(shape) |-> 0]

\* no execution walk is made
FlowIdle(shape) ==
    FlowStart(shape, [n \in NodesOf(shape) |->
                         TaskAndCache(TaskOf(LoadBool(FALSE), FALSE, TRUE, FALSE), PyNone)])

\* no propagation is made
ColumnsIdle(shape) ==
    /\ setup = [n \in NodesOf(shape) |-> NoSetup]
    /\ input_columns = [n \in NodesOf(shape) |-> <<>>]
    /\ cstack = <<>>
    /\ croot = 1
    /\ crun = 1
    /\ cerr = NoErr
    /\ first_out = <<>>

\* no node with delayed_process is called
DlyIdle == [phase |-> "idle"]

\* no graph is walked
NoShape == [cls |-> <<>>, edges |-> <<>>]

NoGraph == [cls |-> <<>>, inputs |-> <<>>, outputs |-> <<>>, roots |-> <<>>]

\* _validate_df is not called
ValidateIdle ==
    /\ vdf = PyNone
    /\ vref = <<>>
    /\ vres = [done |-> FALSE, err |-> "", ok |-> FALSE]

(***************************************************************************)
(* The propagation walk                                                    *)
(***************************************************************************)
\* mutant: the readiness of the target is decided on the input_columns it
\* had before the edge's columns were stored
InputColumnsReadyStale(n, ic) ==
    \A i \in 1..Len(graph.inputs[n]) :
        Has(input_columns[n], graph.inputs[n][i].to_port)

\* mutant: one stored input is enough for the node to be ready
InputColumnsReadyOnAnyPort(n, ic) ==
    \/ graph.inputs[n] = <<>>
    \/ \E i \in 1..Len(graph.inputs[n]) : Has(ic, graph.inputs[n][i].to_port)

\* mutant: the node never waits
InputColumnsReadyAlways(n, ic) == TRUE

\* __input_columns_ready, on the input_columns ic of node n
InputColumnsReady(n, ic) ==
    \A i \in 1..Len(graph.inputs[n]) : Has(ic, graph.inputs[n][i].to_port)

\* __set_input_column
SetInputColumn(ic, to_port, columns) == Put(ic, to_port, columns)

\* self.output_columns = output_cols
StoreOutputColumns(oc, n, output_cols) == [oc EXCEPT ![n] = output_cols]

\* mutant: the local output_cols is stored before the raise
OutputColumnsStoredOnRaise(oc, n, output_cols) == [oc EXCEPT ![n] = output_cols]

\* self.output_columns when columns_flow raises: every raise comes before
\* "self.output_columns = output_cols", and the local output_cols shares no
\* dict with self.output_columns
OutputColumnsOnRaise(oc, n, output_cols) == oc

\* a call of columns_flow on node n up to its loop over self.outputs, in the
\* state whose input_columns are ic and whose callers are stk: not ready is a
\* return; an error unwinds every caller; otherwise the result is stored
\* and the loop starts
ColumnsFlowEnter(n, ic, stk) ==
    /\ input_columns' = ic
    /\ IF ~InputColumnsReady(n, ic[n])
       THEN /\ cstack' = stk
            /\ UNCHANGED <<output_columns, cerr>>
       ELSE \E r \in {ColumnsFlowBody(graph.cls[n], setup[n], ic[n])} :
                IF r.err # ""
                THEN /\ cstack' = <<>>
                     /\ cerr' = [kind |-> r.err, node |-> n]
                     /\ output_columns' = OutputColumnsOnRaise(output_columns, n, r.d)
                ELSE /\ output_columns' = StoreOutputColumns(output_columns, n, r.d)
                     /\ cstack' = Append(stk, [node |-> n, idx |-> 1])
                     /\ UNCHANGED cerr

RunOver == cstack = <<>> /\ (croot > Len(graph.roots) \/ cerr.kind # "")

\* the graph calls columns_flow on its next root
ColumnsRoot ==
    /\ cstack = <<>>
    /\ cerr.kind = ""
    /\ croot <= Len(graph.roots)
    /\ croot' = croot + 1
    /\ ColumnsFlowEnter(graph.roots[croot], input_columns, <<>>)
    /\ UNCHANGED <<graph, setup, crun, first_out>>
    /\ UNCHANGED <<flowVars, dly, valVars>>

\* one iteration of "for iout in self.outputs": the columns of the edge are
\* stored in the target and columns_flow is called on it
ColumnsEdge ==
    /\ cstack # <<>>
    /\ LET top == cstack[Len(cstack)]
           n == top.node
       IN  /\ top.idx <= Len(graph.outputs[n])
           /\ \E iout \in {graph.outputs[n][top.idx]} :
              \E out_cols \in {EdgeOutCols(graph.cls[n], output_columns[n],
                                           iout.from_port)} :
                  IF out_cols.err # ""
                  THEN /\ cstack' = <<>>
                       /\ cerr' = [kind |-> out_cols.err, node |-> n]
                       /\ UNCHANGED <<input_columns, output_columns>>
                  ELSE \E ic \in {[input_columns EXCEPT ![iout.to_node] =
                                      SetInputColumn(@, iout.to_port, out_cols.d)]} :
                          ColumnsFlowEnter(
                              iout.to_node, ic,
                              [cstack EXCEPT ![Len(cstack)].idx = top.idx + 1])
    /\ UNCHANGED <<graph, setup, croot, crun, first_out>>
    /\ UNCHANGED <<flowVars, dly, valVars>>

\* the loop over self.outputs is over: columns_flow returns
ColumnsReturn ==
    /\ cstack # <<>>
    /\ cstack[Len(cstack)].idx > Len(graph.outputs[cstack[Len(cstack)].node])
    /\ cstack' = SubSeq(cstack, 1, Len(cstack) - 1)
    /\ UNCHANGED <<graph, setup, input_columns, output_columns, croot, crun,
                   cerr, first_out>>
    /\ UNCHANGED <<flowVars, dly, valVars>>

\* the propagation is run again over the same nodes, whose input_columns
\* and output_columns nothing resets
ColumnsRerun ==
    /\ RunOver
    /\ crun < MaxRuns
    /\ crun' = crun + 1
    /\ croot' = 1
    /\ cerr' = NoErr
    /\ first_out' = IF crun = 1 THEN output_columns ELSE first_out
    /\ UNCHANGED <<graph, setup, input_columns, output_columns, cstack>>
    /\ UNCHANGED <<flowVars, dly, valVars>>

InitColumns ==
    \E shape \in Shapes :
        /\ graph \in GraphsOf(shape)
        /\ setup \in SetupsFor(shape)
        /\ input_columns = [n \in NodesOf(shape) |-> <<>>]
        /\ output_columns = [n \in NodesOf(shape) |-> <<>>]
        /\ cstack = <<>>
        /\ croot = 1
        /\ crun = 1
        /\ cerr = NoErr
        /\ first_out = <<>>
        /\ FlowIdle(shape)
        /\ dly = DlyIdle
        /\ ValidateIdle

NextColumns == ColumnsRoot \/ ColumnsEdge \/ ColumnsReturn \/ ColumnsRerun

SpecColumns == InitColumns /\ [][NextColumns]_vars

(***************************************************************************)
(* Properties of the propagation walk                                      *)
(***************************************************************************)
\* a node's output_columns as a map: port -> (column -> type) for a node
\* with ports, column -> type for a node without
NormOut(n, oc) ==
    IF graph.cls[n].using_ports
    THEN [p \in Keys(oc) |-> AsMap(Get(oc, p))]
    ELSE AsMap(oc)

\* columns_flow is active on node n: its output_columns were computed by
\* that call from its present input_columns
OnStack(n) == \E i \in 1..Len(cstack) : cstack[i].node = n

\* every pair of dict e is in dict d, key and type
Contains(d, e) == \A i \in 1..Len(e) : Has(d, e[i][1]) /\ Get(d, e[i][1]) = e[i][2]

\* the translation of a column-operation dict of node n
Tran(n, columns) == TranslateColumn(setup[n].conf, columns).d

\* C3: running the propagation from the roots a second time over the same
\* nodes, with the setups unchanged, leaves every node's output_columns
\* equal to what the first run produced.
C3_SecondRunSameOutput ==
    (crun >= 2 /\ RunOver) =>
        \A n \in Nodes :
            NormOut(n, output_columns[n]) = NormOut(n, first_out[n])

\* a second run has ended without error on a graph whose inner nodes have
\* output columns
C3_Witness ==
    /\ crun = 2 /\ RunOver /\ cerr.kind = ""
    /\ \E n \in Nodes : graph.inputs[n] # <<>> /\ output_columns[n] # <<>>

\* the output_columns the propagation yields when every node's inputs
\* arrive in task-spec order
RECURSIVE CanonOut(_)
CanonOut(n) ==
    LET RECURSIVE CanonIn(_, _)
        CanonIn(ins, acc) ==
            IF ins = <<>> THEN acc
            ELSE CanonIn(Tail(ins),
                         Put(acc, ins[1].to_port,
                             EdgeOutCols(graph.cls[ins[1].from_node],
                                         CanonOut(ins[1].from_node),
                                         ins[1].from_port).d))
    IN  ColumnsFlowBody(graph.cls[n], setup[n], CanonIn(graph.inputs[n], <<>>)).d

\* C4: whatever the order of the roots and of each node's outgoing edges,
\* a run that ends without error leaves every node the output_columns that
\* the task-spec order of the same graph and setups gives.
C4_OrderIndependent ==
    (crun = 1 /\ RunOver /\ cerr.kind = "") =>
        \A n \in Nodes : NormOut(n, output_columns[n]) = NormOut(n, CanonOut(n))

\* node n has addition and retention for the same place and no rename
C5_Case(n, oport) ==
    /\ OnStack(n)
    /\ setup[n].rename = <<>>
    /\ setup[n].has_retention
    /\ IF graph.cls[n].using_ports
       THEN Has(setup[n].addition, oport) /\ Has(setup[n].retention, oport)
       ELSE setup[n].addition # <<>>

\* C5: with addition and retention on the same output port (or on the flat
\* schema of a node without ports) and no rename, the output schema is
\* exactly the translated retention set.
C5_RetentionReplaces ==
    \A n \in Nodes :
        IF graph.cls[n].using_ports
        THEN \A i \in 1..Len(graph.cls[n].oports) :
                LET oport == graph.cls[n].oports[i]
                IN  C5_Case(n, oport) =>
                       AsMap(Get(output_columns[n], oport))
                         = AsMap(Tran(n, Get(setup[n].retention, oport)))
        ELSE C5_Case(n, None) =>
                AsMap(output_columns[n]) = AsMap(Tran(n, setup[n].retention))

\* a node without ports retains a set that leaves out an added column
C5_Witness ==
    \E n \in Nodes :
        /\ ~graph.cls[n].using_ports
        /\ C5_Case(n, None)
        /\ \E k \in Keys(Tran(n, setup[n].addition)) :
              /\ ~Has(Tran(n, setup[n].retention), k)
              /\ ~Has(output_columns[n], k)

\* node n has no deletion, retention or rename, and its inbound schema has
\* every required column with its declared type
C6_Case(n) ==
    /\ OnStack(n)
    /\ setup[n].deletion = <<>>
    /\ ~setup[n].has_retention
    /\ setup[n].rename = <<>>
    /\ IF graph.cls[n].using_ports
       THEN \A i \in 1..Len(graph.cls[n].iports) :
               LET iport == graph.cls[n].iports[i]
               IN  /\ Has(input_columns[n], iport)
                   /\ Contains(Get(input_columns[n], iport),
                               Tran(n, GetOr(setup[n].required, iport, <<>>)))
       ELSE Contains(Flatten(input_columns[n]), Tran(n, setup[n].required))

\* the columns required of node n, over all the ports required names
AllRequired(n) ==
    IF graph.cls[n].using_ports
    THEN UNION { { Tran(n, setup[n].required[i][2])[j] :
                    j \in 1..Len(Tran(n, setup[n].required[i][2])) } :
                 i \in 1..Len(setup[n].required) }
    ELSE { Tran(n, setup[n].required)[j] : j \in 1..Len(Tran(n, setup[n].required)) }

\* the example of the specification: required {x: int64}, addition
\* {y: int64}, inbound schema exactly {x: int64}
C6_Example(n) ==
    /\ OnStack(n)
    /\ ~graph.cls[n].using_ports
    /\ setup[n] = Setup(<< <<Cx, Int64>> >>, << <<Cy, Int64>> >>, <<>>, FALSE,
                        <<>>, <<>>)
    /\ AsMap(Flatten(input_columns[n])) = AsMap(<< <<Cx, Int64>> >>)

\* C6 as stated, in its weakest reading: in that case the output schema (of
\* some output port, for a node with ports) has every required column, and
\* every added column with its declared type.
C6_RequiredAndAddedInOutput ==
    \A n \in Nodes :
        C6_Case(n) =>
            IF graph.cls[n].using_ports
            THEN /\ \A kv \in AllRequired(n) :
                       \E i \in 1..Len(output_columns[n]) :
                           Has(output_columns[n][i][2], kv[1])
                 /\ \A i \in 1..Len(graph.cls[n].oports) :
                       Contains(Get(output_columns[n], graph.cls[n].oports[i]),
                                Tran(n, GetOr(setup[n].addition,
                                              graph.cls[n].oports[i], <<>>)))
            ELSE /\ \A kv \in AllRequired(n) : Has(output_columns[n], kv[1])
                 /\ Contains(output_columns[n], Tran(n, setup[n].addition))

\* the schema `base` overlaid with the added columns: exactly the columns
\* of both, an added column with its addition type, any other with its
\* base type
Overlaid(out, base, added) ==
    /\ Keys(out) = Keys(base) \cup Keys(added)
    /\ Contains(out, added)
    /\ \A k \in Keys(base) \ Keys(added) : Get(out, k) = Get(base, k)

\* C6 as amended: the output schema of a node without ports is its inbound
\* schema overlaid with the translated addition (a required column keeps
\* its declared type unless addition declares it again); the schema of an
\* output port of a node with ports is the translated required entry filed
\* under that output port, overlaid with the port's translated addition;
\* the example yields exactly {x: int64, y: int64}.
C6_Amended ==
    \A n \in Nodes :
        /\ C6_Case(n) =>
            IF graph.cls[n].using_ports
            THEN \A i \in 1..Len(graph.cls[n].oports) :
                    LET oport == graph.cls[n].oports[i]
                    IN  /\ Has(output_columns[n], oport)
                        /\ Overlaid(Get(output_columns[n], oport),
                                    Tran(n, GetOr(setup[n].required, oport, <<>>)),
                                    Tran(n, GetOr(setup[n].addition, oport, <<>>)))
            ELSE Overlaid(output_columns[n], Flatten(input_columns[n]),
                          Tran(n, setup[n].addition))
        /\ C6_Example(n) =>
              AsMap(output_columns[n]) = AsMap(<< <<Cx, Int64>>, <<Cy, Int64>> >>)

\* the example of the specification has been computed
C6_Witness == \E n \in Nodes : C6_Case(n) /\ C6_Example(n)

\* node m is renamed a -> b and its only successor n is renamed b -> a:
\* neither has any other column operation, and n has no other input
C7_Pair(m, n) ==
    /\ OnStack(m) /\ OnStack(n)
    /\ ~graph.cls[m].using_ports /\ ~graph.cls[n].using_ports
    /\ \A i \in 1..Len(graph.inputs[n]) : graph.inputs[n][i].from_node = m
    /\ setup[m] = Setup(<<>>, <<>>, <<>>, FALSE, <<>>, << <<Ca, Cb>> >>)
    /\ setup[n] = Setup(<<>>, <<>>, <<>>, FALSE, <<>>, << <<Cb, Ca>> >>)
    /\ Has(Flatten(input_columns[m]), Ca)

\* C7 as stated: for every schema with column a, rename {a: b} followed by
\* rename {b: a} gives back the schema.
C7_RenameRoundTrip ==
    \A m, n \in Nodes :
        C7_Pair(m, n) =>
            AsMap(output_columns[n]) = AsMap(Flatten(input_columns[m]))

\* C7 as amended: for every schema with column a and no column b, rename
\* {a: b} followed by rename {b: a} gives back the schema.
C7_Amended ==
    \A m, n \in Nodes :
        (C7_Pair(m, n) /\ ~Has(Flatten(input_columns[m]), Cb)) =>
            AsMap(output_columns[n]) = AsMap(Flatten(input_columns[m]))

\* the two renames have run on a schema with a and without b
C7_Witness ==
    \E m, n \in Nodes :
        /\ C7_Pair(m, n)
        /\ ~Has(Flatten(input_columns[m]), Cb)
        /\ Has(output_columns[n], Ca)

\* the errors C11 is about
SchemaErrors == {"required", "deletion", "rename"}

\* C11: when the propagation at a node raises because a required column is
\* missing, or a column to delete or to rename is absent, the output_columns
\* of that node (and of every node) stay as they were before the call, no
\* target of its outgoing edges receives columns, and nothing more is
\* computed or delivered in that walk.
C11_ErrorLeavesNoTrace ==
    [][/\ (cerr.kind = "" /\ cerr'.kind \in SchemaErrors) =>
             /\ output_columns' = output_columns
             /\ \A i \in 1..Len(graph.outputs[cerr'.node]) :
                   input_columns'[graph.outputs[cerr'.node][i].to_node]
                       = input_columns[graph.outputs[cerr'.node][i].to_node]
             /\ cstack' = <<>>
       /\ (cerr.kind \in SchemaErrors /\ crun' = crun) =>
             /\ output_columns' = output_columns
             /\ input_columns' = input_columns]_vars

\* a node that has successors and inbound columns has raised on a deletion
C11_Witness ==
    /\ cerr.kind = "deletion"
    /\ graph.outputs[cerr.node] # <<>>
    /\ input_columns[cerr.node] # <<>>

\* node n has a schema stored for each of its inbound edges
AllInboundStored(n, ic) ==
    \A i \in 1..Len(graph.inputs[n]) : Has(ic[n], graph.inputs[n][i].to_port)

\* C17: when columns_flow has been called on every root and nothing was
\* raised, every node has its output_columns computed and stored: they are
\* what columns_flow computes from the node's input_columns, which hold for
\* every inbound edge the schema its source has now; and output_columns is
\* never stored for a node that lacks the schema of an inbound edge.
C17_AllComputedFromAllInbound ==
    /\ []((RunOver /\ cerr.kind = "") =>
            \A n \in Nodes :
               /\ AllInboundStored(n, input_columns)
               /\ \A i \in 1..Len(graph.inputs[n]) :
                     EdgeOutCols(graph.cls[graph.inputs[n][i].from_node],
                                 output_columns[graph.inputs[n][i].from_node],
                                 graph.inputs[n][i].from_port)
                        = Ok(Get(input_columns[n], graph.inputs[n][i].to_port))
               /\ ColumnsFlowBody(graph.cls[n], setup[n], input_columns[n])
                     = Ok(output_columns[n]))
    /\ [][\A n \in Nodes :
             output_columns'[n] # output_columns[n] =>
                AllInboundStored(n, input_columns')]_vars

\* the first propagation is over without error on a graph that has a node
\* with two inbound edges
C17_Witness ==
    /\ RunOver /\ cerr.kind = "" /\ crun = 1
    /\ \E n \in Nodes : Len(graph.inputs[n]) = 2 /\ output_columns[n] # <<>>

\* C18: a call of columns_flow on a node that lacks the schema of some
\* inbound edge changes nothing: output_columns of every node and
\* input_columns of every other node stay as they are, the node's own
\* input_columns hold only what the caller stored before the call, and
\* columns_flow is called on no successor (the call returns to the caller's
\* loop).
C18_NotReadyChangesNothing ==
    [][(/\ cstack # <<>>
        /\ cstack[Len(cstack)].idx <= Len(graph.outputs[cstack[Len(cstack)].node])
        /\ cerr'.kind # "port"
        /\ ~AllInboundStored(
               graph.outputs[cstack[Len(cstack)].node][cstack[Len(cstack)].idx].to_node,
               input_columns')) =>
          /\ output_columns' = output_columns
          /\ cerr' = cerr
          /\ cstack' = [cstack EXCEPT ![Len(cstack)].idx = @ + 1]
          /\ \A m \in Nodes :
                \/ input_columns'[m] = input_columns[m]
                \/ \E e \in {graph.outputs[cstack[Len(cstack)].node]
                                   [cstack[Len(cstack)].idx]} :
                      /\ m = e.to_node
                      /\ Keys(input_columns'[m]) \subseteq
                            Keys(input_columns[m]) \cup {e.to_port}
                      /\ \A q \in Keys(input_columns[m]) \ {e.to_port} :
                            Get(input_columns'[m], q) = Get(input_columns[m], q)]_vars

\* columns_flow has returned from a node that has the schema of one inbound
\* edge and lacks another
C18_Witness ==
    \E n \in Nodes :
        /\ cstack # <<>>
        /\ input_columns[n] # <<>>
        /\ ~AllInboundStored(n, input_columns)
        /\ output_columns[n] = <<>>

\* C25: for a node with ports whose retention has entries for only some of
\* its output ports, the output_columns of an output port that has no
\* retention entry (and no rename entry) are what the required columns,
\* addition and deletion give for it: retention on one port leaves the
\* other ports' columns as they are.
C25_RetentionLeavesOtherPorts ==
    (RunOver /\ cerr.kind = "") =>
        \A n \in Nodes :
            (graph.cls[n].using_ports /\ setup[n].has_retention) =>
                \A k \in 1..Len(graph.cls[n].oports) :
                    (/\ ~Has(setup[n].retention, graph.cls[n].oports[k])
                     /\ ~Has(setup[n].rename, graph.cls[n].oports[k])) =>
                        Get(output_columns[n], graph.cls[n].oports[k])
                           = Get(PortedDeletion(graph.cls[n], setup[n],
                                    PortedAddition(graph.cls[n], setup[n],
                                       PortedRequired(graph.cls[n], setup[n],
                                                      input_columns[n]))).d,
                                 graph.cls[n].oports[k])

(***************************************************************************)
(* The execution walk                                                      *)
(***************************************************************************)
\* __set_input_df
SetInputDf(idf, to_port, df) == Put(idf, to_port, df)

\* a call of flow on node n up to its loop over self.outputs, in the state
\* whose input_df are idf and whose callers are stk: not ready is a return;
\* otherwise __call__ runs, an error of which unwinds every caller, the
\* inputs are cleared when clear_input is set and the loop starts
FlowEnter(n, idf, stk) ==
    IF ~InputReady(task[n].load, graph.inputs[n], idf[n])
    THEN /\ input_df' = idf
         /\ fstack' = stk
         /\ UNCHANGED <<cache, ferr, ncall, nproc, last_in, last_df, returned,
                        nload, nsave>>
    ELSE \E proc_out \in Outputs(graph.cls[n], n, ncall[n] + 1) :
         \E r \in {NodeCall(graph.cls[n], task[n], graph.inputs[n], idf[n],
                            output_columns[n], cache[n], proc_out)} :
            /\ ncall' = [ncall EXCEPT ![n] = @ + 1]
            /\ nproc' = IF r.processed THEN [nproc EXCEPT ![n] = @ + 1] ELSE nproc
            /\ nload' = IF CacheLoaded(task[n].load) THEN [nload EXCEPT ![n] = @ + 1]
                        ELSE nload
            /\ last_in' = IF r.processed THEN [last_in EXCEPT ![n] = idf[n]] ELSE last_in
            /\ last_df' = [last_df EXCEPT ![n] = r.out]
            /\ cache' = IF SaveCache(task[n].save, r.err)
                        THEN [cache EXCEPT ![n] = r.out] ELSE cache
            /\ nsave' = IF SaveCache(task[n].save, r.err)
                        THEN [nsave EXCEPT ![n] = @ + 1] ELSE nsave
            /\ IF r.err # ""
               THEN /\ input_df' = idf
                    /\ fstack' = Unwind(stk)
                    /\ ferr' = FlowErr(r.err, n, r.port, 0, "")
                    /\ UNCHANGED returned
               ELSE /\ returned' = [returned EXCEPT ![n] = Append(@, r.out)]
                    /\ input_df' = IF task[n].clear_input
                                   THEN [idf EXCEPT ![n] = <<>>] ELSE idf
                    /\ fstack' = Append(stk, [node |-> n, idx |-> 1,
                                              output_df |-> r.out])
                    /\ UNCHANGED ferr

FlowOver == fstack = <<>> /\ (froot > Len(graph.roots) \/ ferr.kind # "")

\* the graph calls flow on its next root
FlowRoot ==
    /\ fstack = <<>>
    /\ ferr.kind = ""
    /\ froot <= Len(graph.roots)
    /\ froot' = froot + 1
    /\ FlowEnter(graph.roots[froot], input_df, <<>>)
    /\ UNCHANGED <<graph, output_columns, task, colVars, dly, valVars>>

\* one iteration of "for out in self.outputs": the edge's dataset is taken
\* from output_df, stored in the target, and flow is called on the target
FlowEdge ==
    /\ fstack # <<>>
    /\ LET top == fstack[Len(fstack)]
           n == top.node
       IN  /\ top.idx <= Len(graph.outputs[n])
           /\ \E out \in {graph.outputs[n][top.idx]} :
                 IF out.from_port # None /\ ~Has(top.output_df.items, out.from_port)
                 THEN /\ fstack' = Unwind(SubSeq(fstack, 1, Len(fstack) - 1))
                      /\ ferr' = FlowErr("missing_port", n, out.from_port, out.to_node,
                                         OnodeMsg(graph.cls[out.to_node].uid))
                      /\ UNCHANGED <<cache, input_df, ncall, nproc, last_in, last_df,
                                     returned, nload, nsave>>
                 ELSE \E df \in {EdgeData(graph.cls[n].using_ports,
                                          graph.cls[out.to_node].using_ports,
                                          top.output_df, out.from_port)} :
                      \E idf \in {[input_df EXCEPT ![out.to_node] =
                                      SetInputDf(@, out.to_port, df)]} :
                          FlowEnter(out.to_node, idf,
                                    [fstack EXCEPT ![Len(fstack)].idx = top.idx + 1])
    /\ UNCHANGED <<graph, output_columns, task, froot, colVars, dly, valVars>>

\* the loop over self.outputs is over: flow returns
FlowReturn ==
    /\ fstack # <<>>
    /\ fstack[Len(fstack)].idx > Len(graph.outputs[fstack[Len(fstack)].node])
    /\ fstack' = SubSeq(fstack, 1, Len(fstack) - 1)
    /\ UNCHANGED <<graph, output_columns, task, cache, input_df, froot, ferr, ncall,
                   nproc, last_in, last_df, returned, nload, nsave, colVars, dly,
                   valVars>>

InitFlow ==
    \E shape \in FlowShapes :
        /\ graph \in GraphsOf(shape)
        /\ output_columns = [n \in NodesOf(shape) |-> FlowColumns(shape.cls[n])]
        /\ \E tasks \in TasksFor(shape) : FlowStart(shape, tasks)
        /\ ColumnsIdle(shape)
        /\ dly = DlyIdle
        /\ ValidateIdle

NextFlow == FlowRoot \/ FlowEdge \/ FlowReturn

SpecFlow == InitFlow /\ [][NextFlow]_vars

\* the walk goes on as long as it has a step to make: the driver and flow
\* run without waiting for anything
SpecFlowLive == SpecFlow /\ WF_vars(NextFlow)

(***************************************************************************)
(* Properties of the execution walk                                        *)
(***************************************************************************)
\* C1: whatever its load (False, True or a value given in the task), a node's
\* process is called only with an input_df that has an entry for the to_port
\* of every inbound edge.
C1_ProcessOnlyWithAllInputs ==
    \A n \in Nodes :
        nproc[n] > 0 =>
            \A i \in 1..Len(graph.inputs[n]) :
                Has(last_in[n], graph.inputs[n][i].to_port)

\* what the edge e carries of the value out that its source returned: the
\* entry of its from_port, or the whole of it when it names no port (for a
\* source with ports and a target without, the only entry or the list of
\* the entries)
Carried(out, e) ==
    IF e.from_port # None THEN Get(out.items, e.from_port)
    ELSE IF graph.cls[e.from_node].using_ports /\ ~graph.cls[e.to_node].using_ports
    THEN IF Len(out.items) = 1 THEN out.items[1][2]
         ELSE PyList([i \in 1..Len(out.items) |-> out.items[i][2]])
    ELSE out

\* what the calls of the edge's source have returned up to now, each as the
\* edge carries it
ProducedFor(e) ==
    { Carried(returned[e.from_node][k], e) :
        k \in { j \in 1..Len(returned[e.from_node]) :
                  e.from_port = None
                  \/ Has(returned[e.from_node][j].items, e.from_port) } }

\* C2: in a walk from the roots, with every input_df empty at the start, a
\* node whose load is False is called only after the call of each of its
\* direct predecessors has returned, and what it receives on each to_port is
\* what that predecessor returned for the edge's from_port.
C2_CalledAfterPredecessors ==
    [][\A n \in Nodes :
          (nproc'[n] > nproc[n] /\ task[n].load = LoadBool(FALSE)) =>
              \A i \in 1..Len(graph.inputs[n]) :
                  /\ returned[graph.inputs[n][i].from_node] # <<>>
                  /\ Has(last_in'[n], graph.inputs[n][i].to_port)
                  /\ Get(last_in'[n], graph.inputs[n][i].to_port)
                        \in ProducedFor(graph.inputs[n][i])]_vars

\* a node whose load is False and that has two predecessors has been called
C2_Witness ==
    \E n \in Nodes :
        /\ task[n].load = LoadBool(FALSE)
        /\ Len(graph.inputs[n]) = 2
        /\ nproc[n] > 0
        /\ graph.inputs[n][1].from_node # graph.inputs[n][2].from_node
        /\ Len(returned[n]) > 0

\* node n declares the output ports p1 and p2, both required, has an outgoing
\* edge from p2, and its process has returned a mapping that has p1 only
C8_Case(n, p1, p2) ==
    /\ graph.cls[n].using_ports
    /\ p1 # p2
    /\ Has(graph.cls[n].ospec, p1) /\ ~Get(graph.cls[n].ospec, p1).optional
    /\ Has(graph.cls[n].ospec, p2) /\ ~Get(graph.cls[n].ospec, p2).optional
    /\ \E i \in 1..Len(graph.outputs[n]) : graph.outputs[n][i].from_port = p2
    /\ task[n].load = LoadBool(FALSE)
    /\ nproc[n] > 0
    /\ last_df[n].kind = "dict"
    /\ Keys(last_df[n].items) = {p1}

OutPorts == {Out1, Out2}

\* C8: when a node with the required output ports p1 and p2 and an edge from
\* p2 returns only p1, the walk ends with the missing-output-port error of
\* the edge routing, which names the node and p2 and says that p2 is required
\* as input to the target or is listed in the graph's outputs.
C8_MissingPortRaisedByRouting ==
    \A n \in Nodes : \A p1, p2 \in OutPorts :
        (C8_Case(n, p1, p2) /\ FlowOver) =>
            /\ ferr.kind = "missing_port"
            /\ ferr.node = n
            /\ ferr.port = p2
            /\ ferr.msg = OnodeMsg(graph.cls[ferr.target].uid)

\* C8 as the code has it: the walk ends inside the node's call with the
\* validator's error about the node and p2, nothing having been returned or
\* routed; the missing-output-port error of the edge routing, with its two
\* messages, is raised only for a port the validator lets be absent (one
\* declared optional, or not declared).
C8_Amended ==
    /\ \A n \in Nodes : \A p1, p2 \in OutPorts :
          C8_Case(n, p1, p2) =>
              /\ ferr.kind = "no_output" /\ ferr.node = n /\ ferr.port = p2
              /\ returned[n] = <<>>
              /\ fstack = <<>>
    /\ ferr.kind = "missing_port" =>
          /\ \/ ~Has(graph.cls[ferr.node].ospec, ferr.port)
             \/ Get(graph.cls[ferr.node].ospec, ferr.port).optional
          /\ ~Has(last_df[ferr.node].items, ferr.port)
          /\ \E i \in 1..Len(graph.outputs[ferr.node]) :
                /\ graph.outputs[ferr.node][i].from_port = ferr.port
                /\ graph.outputs[ferr.node][i].to_node = ferr.target
          /\ ferr.msg = IF graph.cls[ferr.target].uid = OUTPUT_ID
                        THEN "is listed in task-graph outputs"
                        ELSE "is required as input to node"

\* the case has happened with the sentinel as the target of the edge from p2
C8_Witness ==
    \E n \in Nodes :
        /\ C8_Case(n, Out1, Out2)
        /\ ferr.kind = "no_output"
        /\ \E i \in 1..Len(graph.outputs[n]) :
              /\ graph.outputs[n][i].from_port = Out2
              /\ graph.cls[graph.outputs[n][i].to_node].uid = OUTPUT_ID

\* C12: after a node has raised in an execution walk, no process,
\* load_cache or save_cache is called and no dataset is stored into any
\* input_df; the raise itself leaves every active flow call.
C12_ErrorStopsWalk ==
    [][/\ ferr.kind # "" =>
             /\ nproc' = nproc /\ nload' = nload /\ nsave' = nsave
             /\ ncall' = ncall
             /\ input_df' = input_df
             /\ cache' = cache
       /\ (ferr.kind = "" /\ ferr'.kind # "") => fstack' = <<>>]_vars

\* a node called from another node's loop has raised while that loop had
\* edges left and a node was not yet called
C12_Witness ==
    /\ ferr.kind # ""
    /\ \E e \in 1..Len(graph.inputs[ferr.node]) :
          LET p == graph.inputs[ferr.node][e].from_node
          IN  graph.outputs[p][Len(graph.outputs[p])].to_node # ferr.node
    /\ \E n \in Nodes : ncall[n] = 0

\* C14: a node configured to load (load is True or a value given in the
\* task) never has its process called; what its __call__ returns is what
\* load_cache gives when load is True, and the given value otherwise.
C14_LoadBypassesProcess ==
    \A n \in Nodes :
        task[n].load # LoadBool(FALSE) =>
            /\ nproc[n] = 0
            /\ \A k \in 1..Len(returned[n]) :
                  returned[n][k] = IF task[n].load.isbool THEN cache[n]
                                   ELSE task[n].load.val

\* C15: with clear_input set on every node, when the walk from every root
\* has ended without error, every node's input_df is empty, whatever the
\* loads of the nodes.
C15_InputsClearedAtEnd ==
    ((\A n \in Nodes : task[n].clear_input) /\ FlowOver /\ ferr.kind = "") =>
        \A n \in Nodes : input_df[n] = <<>>

\* C16: the walk from the roots ends: it returns after every node has been
\* called at least once, or it raises.
C16_WalkTerminates ==
    <>[](FlowOver /\ (ferr.kind = "" => \A n \in Nodes : ncall[n] > 0))

\* the walk of a graph with a join has returned without error
C16_Witness ==
    /\ FlowOver
    /\ ferr.kind = ""
    /\ \A n \in Nodes : ncall[n] > 0
    /\ \E n \in Nodes : Len(graph.inputs[n]) = 2

\* the errors the checks at the end of __call__ raise
CheckErrors ==
    {"none_output", "no_output", "wrong_type", "empty", "columns", "not_valid",
     "type_error"}

\* C19: a node with save has save_cache called once for each call that
\* returns, with what the call returns, and not for a call whose None check
\* or validation raises; a node without save never has it called.
C19_SavedOncePerValidResult ==
    \A n \in Nodes :
        /\ task[n].save =>
              /\ nsave[n] = Len(returned[n])
              /\ nsave[n] > 0 => cache[n] = returned[n][Len(returned[n])]
              /\ \A k \in 1..Len(returned[n]) :
                    /\ graph.cls[n].uid # OUTPUT_ID => returned[n][k].kind # "None"
                    /\ Valide(graph.cls[n], task[n].delayed_process, returned[n][k],
                              output_columns[n]).err = ""
        /\ ~task[n].save => nsave[n] = 0

\* a node with save has saved its result, and a later call of a node with
\* save has raised in its checks
C19_Witness ==
    \E n, m \in Nodes :
        /\ task[n].save /\ task[m].save
        /\ nsave[m] = 1
        /\ ferr.node = n /\ ferr.kind \in CheckErrors
        /\ nsave[n] = 0

\* every input port of every node has exactly one inbound edge
OneEdgePerInputPort ==
    \A n \in Nodes : \A i, j \in 1..Len(graph.inputs[n]) :
        i # j => graph.inputs[n][i].to_port # graph.inputs[n][j].to_port

\* C24: in a walk started once from each root of an acyclic graph whose
\* input ports have one inbound edge each, with every input_df empty at the
\* start, __call__ (process or load_cache, and save_cache) runs at most once
\* for each node, whatever load, save and clear_input are.
C24_InvokedAtMostOnce ==
    OneEdgePerInputPort =>
        \A n \in Nodes :
            /\ ncall[n] <= 1
            /\ nproc[n] + nload[n] <= 1
            /\ nsave[n] <= 1

(***************************************************************************)
(* __call__ of a node with ports and delayed_process, step by step         *)
(***************************************************************************)
\* the most partitions an input has
MaxPartitions == 4

Ported22 ==
    NodeClass("task", TRUE, <<In1, In2>>, <<Out1, Out2>>,
              << <<Out1, PortSpec(FALSE, Frames)>>, <<Out2, PortSpec(TRUE, {"cudf"})>> >>)

Ported01Other ==
    NodeClass("task", TRUE, <<>>, <<Out1>>, << <<Out1, PortSpec(FALSE, {"other"})>> >>)

Ported21Untyped ==
    NodeClass("task", TRUE, <<In1, In2>>, <<Out1>>, << <<Out1, PortSpec(FALSE, {})>> >>)

DlyClasses == {Ported21, Ported21Untyped, Ported02, Ported22}

\* the datasets an input port may hold: a dask_cudf dataframe of some
\* partitions, or a cudf dataframe
DlyInputs(iport) ==
    { PyVal(DataId(0, iport, 0), "dask_cudf", XCols, nparts, nparts, <<>>) :
        nparts \in 1..MaxPartitions }
    \cup {Frame(DataId(0, iport, 0), XCols)}

\* what process may return for the inputs of one partition, or for the whole
\* inputs
DlyOutputs(nd, call) ==
    {PortFrames(1, nd.oports, call), PyDict(<<>>)}
    \cup { PortFrames(1, <<nd.oports[i]>>, call) : i \in 1..Len(nd.oports) }

\* the locals of the call at its start: nothing split (npartitions None),
\* nothing scheduled, nothing called
DlyStart(nd, tk, inputs) ==
    [phase |-> "call", nd |-> nd, tk |-> tk, inputs |-> inputs, i |-> 1,
     npartitions |-> 0, inputs_dly |-> <<>>, j |-> 1, outputs_dly |-> <<>>,
     scheduled |-> <<>>, results |-> <<>>, called |-> <<>>, output_df |-> PyNone, saved |-> FALSE,
     err |-> ""]

\* __call__ reaches "if not self.delayed_process" with load False, ports and
\* delayed_process: the prerequisites decide between __delayed_call and a
\* direct call of process
DlyDispatch ==
    /\ dly.phase = "call"
    /\ IF CheckDlyProcessingPrereq(dly.nd, dly.inputs)
       THEN dly' = [dly EXCEPT !.phase = "split"]
       ELSE \E out \in DlyOutputs(dly.nd, 1) :
               dly' = [dly EXCEPT !.phase = "check",
                                  !.called = Append(@, dly.inputs),
                                  !.output_df = out]
    /\ UNCHANGED <<graph, output_columns, colVars, flowVars, valVars>>

\* one iteration of "for iport, dcudf in inputs.items()"
DlySplit ==
    /\ dly.phase = "split"
    /\ dly.i <= Len(dly.inputs)
    /\ \E iport \in {dly.inputs[dly.i][1]} :
       \E ddf_dly_list \in {ToDelayed(dly.inputs[dly.i][2])} :
       \E npartitions \in {NPartitions(dly.npartitions, Len(ddf_dly_list))} :
          IF npartitions # Len(ddf_dly_list)
          THEN dly' = [dly EXCEPT !.phase = "failed", !.err = "partitions",
                                  !.npartitions = npartitions]
          ELSE dly' = [dly EXCEPT
                         !.npartitions = npartitions,
                         !.inputs_dly = SplitInto(@, iport, ddf_dly_list),
                         !.i = @ + 1,
                         !.phase = IF dly.i = Len(dly.inputs) THEN "schedule"
                                   ELSE "split"]
    /\ UNCHANGED <<graph, output_columns, colVars, flowVars, valVars>>

\* one iteration of "for inputs_ in inputs_dly.values()": process is scheduled
\* on the inputs of one partition and each output port's part is taken from
\* what it returns
DlySchedule ==
    /\ dly.phase = "schedule"
    /\ dly.j <= Len(dly.inputs_dly)
    /\ \E out_dict \in DlyOutputs(dly.nd, dly.j) :
          dly' = [dly EXCEPT
                    !.scheduled = Append(@, dly.inputs_dly[dly.j]),
                    !.results = Append(@, out_dict),
                    !.outputs_dly = AppendPouts(@, dly.nd.oports, out_dict),
                    !.j = @ + 1,
                    !.phase = IF dly.j = Len(dly.inputs_dly) THEN "gather"
                              ELSE "schedule"]
    /\ UNCHANGED <<graph, output_columns, colVars, flowVars, valVars>>

\* "for oport in self._get_output_ports():
\*      output_df[oport] = dask_cudf.from_delayed(outputs_dly[oport])"
DlyGather ==
    /\ dly.phase = "gather"
    /\ dly' = [dly EXCEPT
                 !.phase = "check",
                 !.output_df =
                     PyDict([k \in 1..Len(dly.nd.oports) |->
                               <<dly.nd.oports[k],
                                 FromDelayed(DataId(1, dly.nd.oports[k], 1),
                                             Get(dly.outputs_dly, dly.nd.oports[k]))>>])]
    /\ UNCHANGED <<graph, output_columns, colVars, flowVars, valVars>>

\* the end of __call__: the None check, __valide and save_cache
DlyCheck ==
    /\ dly.phase = "check"
    /\ IF dly.nd.uid # OUTPUT_ID /\ dly.output_df.kind = "None"
       THEN dly' = [dly EXCEPT !.phase = "failed", !.err = "none_output"]
       ELSE \E v \in {Valide(dly.nd, dly.tk.delayed_process, dly.output_df,
                             output_columns[1])} :
               IF v.err # ""
               THEN dly' = [dly EXCEPT !.phase = "failed", !.err = v.err]
               ELSE dly' = [dly EXCEPT !.phase = "done", !.saved = dly.tk.save]
    /\ UNCHANGED <<graph, output_columns, colVars, flowVars, valVars>>

InitDelayed ==
    /\ \E nd \in DlyClasses :
       \E save \in BOOLEAN :
       \E d1 \in DlyInputs(In1) : \E d2 \in DlyInputs(In2) :
       \E inputs \in (IF nd.iports = <<>> THEN { <<>> }
                      ELSE Orders(<< <<In1, d1>>, <<In2, d2>> >>)) :
          /\ dly = DlyStart(nd, TaskOf(LoadBool(FALSE), save, TRUE, TRUE), inputs)
          /\ graph = [cls |-> <<nd>>, inputs |-> << <<>> >>, outputs |-> << <<>> >>,
                      roots |-> <<>>]
          /\ output_columns = <<FlowColumns(nd)>>
    /\ ColumnsIdle(NoShape)
    /\ FlowIdle(NoShape)
    /\ ValidateIdle

NextDelayed == DlyDispatch \/ DlySplit \/ DlySchedule \/ DlyGather \/ DlyCheck

SpecDelayed == InitDelayed /\ [][NextDelayed]_vars

\* the dispatch of __call__ is behind: process has been called directly, or
\* __delayed_call has been entered
DirectCall == Len(dly.called) = 1 /\ dly.called[1] = dly.inputs /\ dly.scheduled = <<>>

DelayedCall == dly.called = <<>> /\ dly.phase \in {"split", "schedule", "gather", "check", "done", "failed"}

SomeInputNotDask == \E i \in 1..Len(dly.inputs) : dly.inputs[i][2].kind # "dask_cudf"

SomeOutputPortOfNeitherType ==
    \E i \in 1..Len(dly.nd.ospec) :
        "cudf" \notin dly.nd.ospec[i][2].types /\ "dask_cudf" \notin dly.nd.ospec[i][2].types

\* C21: with delayed_process on a node with ports, when some input is no
\* dask_cudf dataframe or some output port's type has neither cudf nor
\* dask_cudf, process is called directly, once, on the whole inputs; when
\* every input is a dask_cudf dataframe and every output port's type has one
\* of the two, __delayed_call runs.
C21_PrereqDecidesPath ==
    dly.phase \notin {"idle", "call"} =>
        IF SomeInputNotDask \/ SomeOutputPortOfNeitherType
        THEN DirectCall ELSE DelayedCall

\* C21 amended: __delayed_call runs when, besides, the node has an input;
\* a node that has no input has process called directly.
C21_Amended ==
    dly.phase \notin {"idle", "call"} =>
        IF dly.inputs = <<>> \/ SomeInputNotDask \/ SomeOutputPortOfNeitherType
        THEN DirectCall ELSE DelayedCall

\* the prerequisites have sent a node with a cudf input to a direct call
\* that has passed the checks
C21_Witness ==
    /\ dly.phase = "done" /\ DirectCall
    /\ SomeInputNotDask /\ ~SomeOutputPortOfNeitherType
    /\ \E i \in 1..Len(dly.inputs) : dly.inputs[i][2].kind = "dask_cudf"

\* __delayed_call has returned its output_df
DelayedOutput == dly.called = <<>> /\ dly.output_df.kind = "dict"

\* C22: when __delayed_call runs on inputs that all have N partitions,
\* process is scheduled exactly once for each partition index, on the
\* mapping of every input port to that partition of its input, and the
\* dask_cudf output of every output port has exactly N partitions, the
\* i-th of which is what the i-th result of process has under the port, or
\* an empty cudf dataframe when the result lacks the port.
C22_OncePerPartitionInOrder ==
    DelayedOutput =>
        \E N \in {dly.inputs[1][2].nparts} :
            /\ \A i \in 1..Len(dly.inputs) : dly.inputs[i][2].nparts = N
            /\ Len(dly.scheduled) = N /\ Len(dly.results) = N
            /\ \A k \in 1..N :
                  /\ Keys(dly.scheduled[k]) = {dly.inputs[i][1] : i \in 1..Len(dly.inputs)}
                  /\ \A i \in 1..Len(dly.inputs) :
                        Get(dly.scheduled[k], dly.inputs[i][1])
                           = PyVal(DataId(dly.inputs[i][2].id.node,
                                          dly.inputs[i][2].id.port, k),
                                   "cudf", dly.inputs[i][2].cols, 1, 0, <<>>)
            /\ Keys(dly.output_df.items) = {dly.nd.oports[o] : o \in 1..Len(dly.nd.oports)}
            /\ \A o \in 1..Len(dly.nd.oports) :
               \E out \in {Get(dly.output_df.items, dly.nd.oports[o])} :
                  /\ out.kind = "dask_cudf"
                  /\ out.nparts = N /\ Len(out.items) = N
                  /\ \A k \in 1..N :
                        out.items[k] =
                           IF \E j \in 1..Len(dly.results[k].items) :
                                 dly.results[k].items[j][1] = dly.nd.oports[o]
                           THEN Get(dly.results[k].items, dly.nd.oports[o])
                           ELSE PyVal(NoId, "cudf", <<>>, 0, 0, <<>>)

\* a node with two output ports has run on inputs of three partitions, and
\* the second result of process lacked a port
C22_Witness ==
    /\ DelayedOutput /\ dly.phase = "done"
    /\ Len(dly.nd.oports) = 2
    /\ Len(dly.scheduled) = 3
    /\ Len(dly.results[2].items) = 1

\* __call__ on every path: in an execution walk, where the output comes
\* from process, from load_cache or from self.load, and alone with
\* delayed_process
InitCall == InitFlow \/ InitDelayed

NextCall == NextFlow \/ NextDelayed

SpecCall == InitCall /\ [][NextCall]_vars

\* C13: every value __call__ returns for a node whose uid is not OUTPUT_ID
\* is not None and passes __valide against the node's output_columns,
\* whether it comes from process, from the delayed path, from load_cache or
\* from self.load; a call of such a node that has None for output (or no
\* output, when an input it indexes is missing) ends with an error and
\* returns nothing.
C13_ReturnedIsValidated ==
    /\ \A n \in DOMAIN returned : \A k \in 1..Len(returned[n]) :
          graph.cls[n].uid # OUTPUT_ID =>
             /\ returned[n][k].kind # "None"
             /\ Valide(graph.cls[n], task[n].delayed_process, returned[n][k],
                       output_columns[n]).err = ""
    /\ \A n \in DOMAIN last_df :
          (ncall[n] > 0 /\ graph.cls[n].uid # OUTPUT_ID /\ last_df[n].kind = "None") =>
             /\ ferr.kind \in {"none_output", "key_error"} /\ ferr.node = n
             /\ Len(returned[n]) < ncall[n]
    /\ (dly.phase = "done") =>
          /\ dly.output_df.kind # "None"
          /\ Valide(dly.nd, dly.tk.delayed_process, dly.output_df,
                    output_columns[1]).err = ""
    /\ (dly.phase = "failed" /\ dly.err \notin {"partitions"}) =>
          \/ dly.output_df.kind = "None"
          \/ Valide(dly.nd, dly.tk.delayed_process, dly.output_df,
                    output_columns[1]).err = dly.err

\* a walk in which one node has returned what load_cache gave, another the
\* value given as load and a third what process returned
C13_Witness ==
    \E n, m, p \in DOMAIN returned :
        /\ nload[n] > 0 /\ returned[n] # <<>>
        /\ ~task[m].load.isbool /\ nproc[m] = 0 /\ returned[m] # <<>>
        /\ nproc[p] > 0 /\ returned[p] # <<>>

\* the node takes the delayed path and its inputs differ in partitions
C9_Case ==
    /\ dly.phase # "idle"
    /\ CheckDlyProcessingPrereq(dly.nd, dly.inputs)
    /\ \E a, b \in 1..Len(dly.inputs) : dly.inputs[a][2].nparts # dly.inputs[b][2].nparts

\* C9: when the dask_cudf inputs of a node on the delayed path differ in
\* their number of partitions, the call fails with the partition-mismatch
\* error, and process has then been neither called nor scheduled on any
\* partition, in whichever order the inputs are examined.
C9_MismatchBeforeAnyCall ==
    C9_Case =>
        /\ dly.phase \in {"call", "split", "failed"}
        /\ dly.phase = "failed" => dly.err = "partitions"
        /\ dly.scheduled = <<>>
        /\ dly.called = <<>>
        /\ dly.outputs_dly = <<>>

\* the call has failed on inputs of 4 and 3 partitions, the input port
\* examined first being the second port
C9_Witness ==
    /\ C9_Case
    /\ dly.phase = "failed"
    /\ dly.err = "partitions"
    /\ dly.inputs[1][1] = In2
    /\ dly.inputs[1][2].nparts = 4
    /\ dly.inputs[2][2].nparts = 3

(***************************************************************************)
(* _validate_df on its own                                                 *)
(***************************************************************************)
\* the dtype strings a produced column may have
DTypes == {Int64, Float64, DatetimeMs, DatetimeNs, Date, Category, Object}

\* the types a column may be declared with
RefTypes == {None, Date, Category, Int64, IntType, Float64, FloatType, DatetimeMs,
             DatetimeNs, Object, Foo}

\* the dataframes validated: of one or two columns, with or without rows
ValidatedFrames ==
    { PyVal(NoId, "cudf", << <<Cx, t>> >>, rows, 0, <<>>) :
        t \in DTypes, rows \in {0, 1} }
    \cup { PyVal(NoId, kind, << <<Cx, t>>, <<Cy, u>> >>, 1, 0, <<>>) :
             t \in DTypes, u \in {Float64, DatetimeNs}, kind \in {"cudf", "dask_cudf"} }
    \cup { PyVal(NoId, "other", <<>>, 0, 0, <<>>) }

\* the ref_cols they are validated against
ValidatedRefCols ==
    { << <<Cx, t>> >> : t \in RefTypes }
    \cup { << <<Cz, t>> >> : t \in {None, Int64} }
    \cup { << <<Cy, u>>, <<Cx, t>> >> : t \in RefTypes, u \in {None, Date, FloatType, Foo} }

\* _validate_df is called
ValidateCall ==
    /\ ~vres.done
    /\ \E v \in {ValidateDf(vdf, vref)} :
          vres' = [done |-> TRUE, err |-> v.err, ok |-> v.ok]
    /\ UNCHANGED <<graph, output_columns, colVars, flowVars, dly, vdf, vref>>

InitValidate ==
    /\ vdf \in ValidatedFrames
    /\ vref \in ValidatedRefCols
    /\ vres = [done |-> FALSE, err |-> "", ok |-> FALSE]
    /\ graph = NoGraph
    /\ output_columns = <<>>
    /\ ColumnsIdle(NoShape)
    /\ FlowIdle(NoShape)
    /\ dly = DlyIdle

NextValidate == ValidateCall

SpecValidate == InitValidate /\ [][NextValidate]_vars

\* the dtype check of one expected column, as C10 has it; no claim is made
\* about the declared type 'category'
C10_Accepted(ref_type, dtype) ==
    IF ref_type = None THEN TRUE
    ELSE IF ref_type = Date
    THEN dtype \in {<<"datetime64[ms]">>, <<"date">>, <<"datetime64[ns]">>}
    ELSE NpDtypeStr(ref_type).err = "" /\ dtype = NpDtypeStr(ref_type).d

\* the dataframe has rows and exactly the expected columns, none of which is
\* declared 'category': the dtype checks decide
C10_Case ==
    /\ vres.done
    /\ IsFrame(vdf)
    /\ vdf.rows > 0
    /\ Len(vdf.cols) = Len(vref)
    /\ \A i \in 1..Len(vref) : Has(vdf.cols, vref[i][1]) /\ vref[i][2] # Category

\* C10: the dtype check of an expected column declared 'date' succeeds
\* exactly when the produced dtype string is datetime64[ms], date or
\* datetime64[ns]; a column declared None passes with any dtype; a column
\* declared with any other type but 'category' passes exactly when the
\* produced dtype string equals the normalized declared type.
C10_DtypeCheck ==
    C10_Case =>
        ((vres.err = "" /\ vres.ok)
            <=> \A i \in 1..Len(vref) :
                   C10_Accepted(vref[i][2], Get(vdf.cols, vref[i][1])))

\* a column declared 'date' has passed with datetime64[ns], next to a column
\* declared 'float' that has passed with float64
C10_Witness ==
    /\ C10_Case
    /\ vres.ok
    /\ vref = << <<Cy, FloatType>>, <<Cx, Date>> >>
    /\ Get(vdf.cols, Cx) = DatetimeNs

(***************************************************************************)
(* __valide alone, on the output of a node with ports                      *)
(***************************************************************************)
\* what a node may have under an output port: a dataframe of the expected
\* columns, with or without rows, in memory or distributed, a dataframe of
\* other columns, or an object that is no dataframe
PortValues(pname) ==
    { PyVal(DataId(1, pname, 1), kind, XCols, rows, 0, <<>>) :
        kind \in Frames, rows \in {0, 1} }
    \cup { Frame(DataId(1, pname, 1), XYCols),
           PyVal(DataId(1, pname, 1), "other", <<>>, 0, 0, <<>>) }

\* the items of the mappings that have, for each of the ports, nothing or
\* one of its values
RECURSIVE ValideItems(_)
ValideItems(ports) ==
    IF ports = <<>> THEN { <<>> }
    ELSE UNION { {r} \cup { << <<ports[1], v>> >> \o r : v \in PortValues(ports[1]) } :
                 r \in ValideItems(Tail(ports)) }

\* __valide is called with the node's output and its output_columns
ValideCall ==
    /\ ~vres.done
    /\ vdf.kind = "dict"
    /\ \E v \in {Valide(graph.cls[1], task[1].delayed_process, vdf,
                          output_columns[1])} :
          vres' = [done |-> TRUE, err |-> v.err, port |-> v.port]
    /\ UNCHANGED <<graph, output_columns, colVars, flowVars, dly, vdf, vref>>

InitValide ==
    /\ \E nd \in {Ported02, Ported02Optional, Ported21, Ported21Untyped,
                   Ported01Other} :
       \E delayed_process \in BOOLEAN :
          /\ graph = [cls |-> <<nd>>, inputs |-> << <<>> >>, outputs |-> << <<>> >>,
                      roots |-> <<>>]
          /\ output_columns = <<FlowColumns(nd)>>
          /\ vdf \in { PyDict(items) : items \in ValideItems(nd.oports) }
          /\ FlowStart([cls |-> <<nd>>, edges |-> <<>>],
                       <<TaskAndCache(TaskOf(LoadBool(FALSE), FALSE, TRUE,
                                             delayed_process), PyNone)>>)
    /\ vref = <<>>
    /\ vres = [done |-> FALSE, err |-> "", port |-> None]
    /\ ColumnsIdle(NoShape)
    /\ dly = DlyIdle

SpecValide == InitValide /\ [][ValideCall]_vars

\* the i-th declared output port of the node: its name, whether it is
\* optional, and what the output has under it
PortName(i) == graph.cls[1].ospec[i][1]

Optional(i) == graph.cls[1].ospec[i][2].optional

Absent(i) == \A k \in 1..Len(vdf.items) : vdf.items[k][1] # PortName(i)

Held(i) == vdf.items[CHOOSE k \in 1..Len(vdf.items) : vdf.items[k][1] = PortName(i)][2]

EmptyTable(i) == ~Absent(i) /\ Held(i).kind \in {"cudf", "dask_cudf"} /\ Held(i).rows = 0

\* the value's type is one the port allows: the port declares no type, or
\* the type, or cudf.DataFrame for a distributed dataframe of a node with
\* delayed_process
KindAllowed(i) ==
    \/ graph.cls[1].ospec[i][2].types = {}
    \/ Held(i).kind \in graph.cls[1].ospec[i][2].types
    \/ /\ task[1].delayed_process /\ Held(i).kind = "dask_cudf"
       /\ "cudf" \in graph.cls[1].ospec[i][2].types

\* the port holds a dataframe of an allowed type that has rows and the
\* expected columns
GoodTable(i) ==
    /\ ~Absent(i) /\ KindAllowed(i)
    /\ Held(i).kind \in {"cudf", "dask_cudf"} /\ Held(i).rows > 0
    /\ Held(i).cols = XCols

\* an optional port the output leaves out or fills with an empty table (of
\* a type the port allows)
OptionalSkipped(i) ==
    Optional(i) /\ (Absent(i) \/ (EmptyTable(i) /\ KindAllowed(i)))

Declared(i) == graph.cls[1].ospec[i][2].types

\* __valide has raised for the type of what the i-th port holds
WrongType(i) == vres.err = "wrong_type" /\ vres.port = PortName(i)

\* C23: with delayed_process on a node with ports, a dask_cudf dataframe
\* under an output port that declares a type never fails the type check of
\* __valide, whatever types the port declares.
C23_DaskNeverWrongType ==
    (vres.done /\ task[1].delayed_process) =>
        \A i \in 1..Len(graph.cls[1].ospec) :
            (Declared(i) # {} /\ ~Absent(i) /\ Held(i).kind = "dask_cudf")
                => ~WrongType(i)

\* C23 amended: it never fails the type check of a port whose declared types
\* have cudf.DataFrame (or dask_cudf.DataFrame itself); under a port that
\* declares types without either, it fails the type check with
\* delayed_process as without.
C23_Amended ==
    (vres.done /\ task[1].delayed_process) =>
        /\ \A i \in 1..Len(graph.cls[1].ospec) :
              (Declared(i) \cap {"cudf", "dask_cudf"} # {} /\ ~Absent(i)
                 /\ Held(i).kind = "dask_cudf")
                 => ~WrongType(i)
        /\ (Declared(1) # {} /\ Declared(1) \cap {"cudf", "dask_cudf"} = {}
              /\ ~Absent(1) /\ Held(1).kind = "dask_cudf")
              => WrongType(1)

\* with delayed_process, a dask_cudf dataframe has been accepted under a
\* port that declares cudf.DataFrame alone
C23_Witness ==
    /\ vres.done /\ task[1].delayed_process /\ vres.err = ""
    /\ vdf.kind = "dict"
    /\ \E i \in 1..Len(graph.cls[1].ospec) :
          Declared(i) = {"cudf"} /\ ~Absent(i) /\ Held(i).kind = "dask_cudf"

====
